---------------------------- MODULE Spec2Model ----------------------------
(***************************************************************************)
(* A model of github-pr-dashboard: the session codec (app/lib/session.ts), *)
(* the PR aggregator (app/lib/github.ts) and the dashboard loader          *)
(* (app/routes/dashboard.tsx).                                             *)
(*                                                                         *)
(* Texts that the codec transforms are sequences of UTF-16 code units, so  *)
(* that btoa, atob, JSON and the URI escaping are computed, not assumed.   *)
(* Texts the program only carries around (urls, titles, messages) are      *)
(* TLA+ strings.                                                           *)
(***************************************************************************)
EXTENDS Integers, Sequences, FiniteSets, TLC

(***************************************************************************)
(* Texts as code units                                                     *)
(***************************************************************************)

\* The printable ASCII characters in code order: 32 (space) to 95 (_), and
\* 97 (a) to 126 (~). (Code 96 cannot be written in a string of this language.)
AsciiLow == " !\"#$%&'()*+,-./0123456789:;<=>?@ABCDEFGHIJKLMNOPQRSTUVWXYZ[\\]^_"
AsciiHigh == "abcdefghijklmnopqrstuvwxyz{|}~"

\* The code unit of each of these characters.
CodeOf ==
  [c \in {SubSeq(AsciiLow, i, i) : i \in 1..Len(AsciiLow)}
         \cup {SubSeq(AsciiHigh, i, i) : i \in 1..Len(AsciiHigh)} |->
     IF \E i \in 1..Len(AsciiLow) : SubSeq(AsciiLow, i, i) = c
     THEN 31 + (CHOOSE i \in 1..Len(AsciiLow) : SubSeq(AsciiLow, i, i) = c)
     ELSE 96 + (CHOOSE i \in 1..Len(AsciiHigh) : SubSeq(AsciiHigh, i, i) = c)]

\* The code unit of a one-character string.
Code(c) == CodeOf[c]

\* The code units of an ASCII string literal.
U(s) == [i \in 1..Len(s) |-> Code(SubSeq(s, i, i))]

\* The characters the program and its platform look for.
ChPercent == Code("%")
ChQuote == Code("\"")
ChBackslash == Code("\\")
ChSemicolon == Code(";")
ChEquals == Code("=")
ChMinus == Code("-")
ChZero == Code("0")
ChColon == Code(":")
ChComma == Code(",")
ChOpenBrace == Code("{")
ChCloseBrace == Code("}")
ChOpenBracket == Code("[")
ChCloseBracket == Code("]")
ChLowerU == Code("u")

\* Concatenation of a sequence of texts (by halves, to keep the nesting low).
RECURSIVE Flat(_)
Flat(ss) ==
  IF ss = <<>> THEN <<>>
  ELSE IF Len(ss) = 1 THEN ss[1]
  ELSE LET h == Len(ss) \div 2
       IN Flat(SubSeq(ss, 1, h)) \o Flat(SubSeq(ss, h + 1, Len(ss)))

\* t has the text w at position p.
HasAt(t, p, w) == p + Len(w) - 1 <= Len(t) /\ SubSeq(t, p, p + Len(w) - 1) = w

\* The text from position p to the end.
From(t, p) == SubSeq(t, p, Len(t))

\* The result of a call that may throw: a value, or the name of the exception.
Ok(x) == [ok |-> TRUE, v |-> x, err |-> ""]
Throw(e) == [ok |-> FALSE, v |-> <<>>, err |-> e]


(***************************************************************************)
(* btoa / atob (the platform's base64, used by session.ts)                 *)
(***************************************************************************)

B64Alphabet == U("ABCDEFGHIJKLMNOPQRSTUVWXYZabcdefghijklmnopqrstuvwxyz0123456789+/")

\* The base64 character of a 6-bit value, and the value of a character.
B64Char(v) == B64Alphabet[v + 1]
IsB64(c) ==
  \/ (c >= 65 /\ c <= 90) \/ (c >= 97 /\ c <= 122) \/ (c >= 48 /\ c <= 57)
  \/ c = 43 \/ c = 47
B64Val(c) ==
  IF c >= 65 /\ c <= 90 THEN c - 65
  ELSE IF c >= 97 /\ c <= 122 THEN c - 71
  ELSE IF c >= 48 /\ c <= 57 THEN c + 4
  ELSE IF c = 43 THEN 62
  ELSE 63

\* The characters of one group of 1, 2 or 3 bytes, padded with "=".
B64Group(g) ==
  LET n == Len(g)
      b2 == IF n >= 2 THEN g[2] ELSE 0
      b3 == IF n >= 3 THEN g[3] ELSE 0
      w == g[1] * 65536 + b2 * 256 + b3
      pad == ChEquals
  IN <<B64Char(w \div 262144),
       B64Char((w \div 4096) % 64),
       IF n >= 2 THEN B64Char((w \div 64) % 64) ELSE pad,
       IF n >= 3 THEN B64Char(w % 64) ELSE pad>>

\* Ceiling of n / k.
CeilDiv(n, k) == (n + k - 1) \div k

\* The smaller of two numbers.
Min(a, b) == IF a <= b THEN a ELSE b

B64Encode(b) ==
  Flat([i \in 1..CeilDiv(Len(b), 3) |->
          B64Group(SubSeq(b, 3 * i - 2, Min(3 * i, Len(b))))])

\* btoa: every code unit must be a byte, else InvalidCharacterError.
Btoa(t) ==
  IF \E i \in 1..Len(t) : t[i] > 255
  THEN Throw("InvalidCharacterError")
  ELSE Ok(B64Encode(t))

\* The bytes of one group of 2, 3 or 4 characters (the spare low bits dropped).
B64Ungroup(g) ==
  LET n == Len(g)
      v3 == IF n >= 3 THEN B64Val(g[3]) ELSE 0
      v4 == IF n >= 4 THEN B64Val(g[4]) ELSE 0
      w == B64Val(g[1]) * 262144 + B64Val(g[2]) * 4096 + v3 * 64 + v4
  IN SubSeq(<<w \div 65536, (w \div 256) % 256, w % 256>>, 1, n - 1)

B64Decode(t) ==
  Flat([i \in 1..CeilDiv(Len(t), 4) |->
          B64Ungroup(SubSeq(t, 4 * i - 3, Min(4 * i, Len(t))))])

IsAsciiSpace(c) == c \in {9, 10, 12, 13, 32}

\* atob: the forgiving base64 decode. ASCII whitespace is removed; one or two
\* trailing "=" are removed from a text whose length is a multiple of 4; a
\* length of 1 modulo 4 or a character outside the alphabet is an
\* InvalidCharacterError.
Atob(t) ==
  LET s == SelectSeq(t, LAMBDA c : ~IsAsciiSpace(c))
      n == Len(s)
      pad == ChEquals
      cut == IF n > 0 /\ n % 4 = 0 /\ s[n] = pad
             THEN (IF s[n - 1] = pad THEN 2 ELSE 1)
             ELSE 0
      d == SubSeq(s, 1, n - cut)
  IN IF Len(d) % 4 = 1 \/ \E i \in 1..Len(d) : ~IsB64(d[i])
     THEN Throw("InvalidCharacterError")
     ELSE Ok(B64Decode(d))

(***************************************************************************)
(* encodeURIComponent / decodeURIComponent                                 *)
(***************************************************************************)

HexDigits == U("0123456789ABCDEF")
HexLower == U("0123456789abcdef")

IsHex(c) == (c >= 48 /\ c <= 57) \/ (c >= 65 /\ c <= 70) \/ (c >= 97 /\ c <= 102)
HexVal(c) ==
  IF c <= 57 THEN c - 48
  ELSE IF c <= 70 THEN c - 55
  ELSE c - 87

\* "%XX" for a byte.
PctByte(b) == <<ChPercent, HexDigits[(b \div 16) + 1], HexDigits[(b % 16) + 1]>>

\* The characters encodeURIComponent leaves alone: A-Z a-z 0-9 - _ . ! ~ * ' ( )
UriUnreserved ==
  {c \in 32..126 : (c >= 65 /\ c <= 90) \/ (c >= 97 /\ c <= 122) \/ (c >= 48 /\ c <= 57)}
  \cup {Code(SubSeq("-_.!~*'()", i, i)) : i \in 1..9}

\* The escape of one code unit: itself, or the "%XX" of each byte of its UTF-8
\* form (surrogates, which need their pair, are outside the texts modelled).
EncodeUnit(c) ==
  IF c \in UriUnreserved THEN <<c>>
  ELSE IF c < 128 THEN PctByte(c)
  ELSE IF c < 2048 THEN PctByte(192 + (c \div 64)) \o PctByte(128 + (c % 64))
  ELSE PctByte(224 + (c \div 4096)) \o PctByte(128 + ((c \div 64) % 64))
         \o PctByte(128 + (c % 64))

EncodeURIComponent(t) == Flat([i \in 1..Len(t) |-> EncodeUnit(t[i])])

\* t has a well-formed "%XX" at p.
PctAt(t, p) ==
  p + 2 <= Len(t) /\ t[p] = ChPercent /\ IsHex(t[p + 1]) /\ IsHex(t[p + 2])
PctVal(t, p) == HexVal(t[p + 1]) * 16 + HexVal(t[p + 2])

\* The byte escaped at p is a lead byte C2..DF, a continuation byte 80..BF.
IsLead(t, p) == PctAt(t, p) /\ PctVal(t, p) >= 194 /\ PctVal(t, p) <= 223
IsCont(t, p) == PctAt(t, p) /\ PctVal(t, p) >= 128 /\ PctVal(t, p) <= 191

\* Position p is one of the two hex digits of an escape.
InEscape(t, p) == (p > 1 /\ t[p - 1] = ChPercent) \/ (p > 2 /\ t[p - 2] = ChPercent)

\* What decodeURIComponent makes of the escape at p: the character of a byte
\* below 128; the character of a lead byte and the continuation byte that
\* follows it; nothing for that continuation byte, which its lead consumed.
UnescapeAt(t, p) ==
  LET b == PctVal(t, p)
  IN IF b < 128 THEN <<b>>
     ELSE IF IsLead(t, p) THEN <<(b - 192) * 64 + (PctVal(t, p + 3) - 128)>>
     ELSE <<>>

\* decodeURIComponent: a "%" must start an escape "%XX"; a lead byte C2..DF
\* must be followed by the escape of a continuation byte 80..BF, and a
\* continuation byte must follow a lead. Anything else is a URIError. (Three
\* and four byte escapes are outside the texts modelled.)
DecodeURIComponent(t) ==
  LET pcts == {p \in 1..Len(t) : t[p] = ChPercent}
      wellFormed ==
        \A p \in pcts :
          /\ PctAt(t, p)
          /\ PctVal(t, p) >= 128 =>
               \/ IsLead(t, p) /\ IsCont(t, p + 3)
               \/ IsCont(t, p) /\ p > 3 /\ IsLead(t, p - 3)
  IN IF ~wellFormed THEN Throw("URIError")
     ELSE Ok(Flat([p \in 1..Len(t) |->
                     IF p \in pcts THEN UnescapeAt(t, p)
                     ELSE IF InEscape(t, p) THEN <<>>
                     ELSE <<t[p]>>]))

(***************************************************************************)
(* JSON values, JSON.stringify and JSON.parse                              *)
(***************************************************************************)

\* A JavaScript value that JSON can carry, tagged with its type. An object is
\* a function from its keys (texts) to values; undefined is the absence of a
\* key.
JNull == [t |-> "null", v |-> <<>>]
JBool(b) == [t |-> "bool", v |-> b]
JNum(n) == [t |-> "num", v |-> n]
JStr(s) == [t |-> "str", v |-> s]
JArr(a) == [t |-> "arr", v |-> a]
JObj(f) == [t |-> "obj", v |-> f]
Undefined == [t |-> "undefined", v |-> <<>>]

\* The JSON escape of one code unit of a string.
QuoteUnit(c) ==
  IF c = ChQuote \/ c = ChBackslash THEN <<ChBackslash, c>>
  ELSE IF c = 8 THEN <<ChBackslash, Code("b")>>
  ELSE IF c = 9 THEN <<ChBackslash, Code("t")>>
  ELSE IF c = 10 THEN <<ChBackslash, Code("n")>>
  ELSE IF c = 12 THEN <<ChBackslash, Code("f")>>
  ELSE IF c = 13 THEN <<ChBackslash, Code("r")>>
  ELSE IF c < 32
  THEN <<ChBackslash, ChLowerU, ChZero, ChZero,
         HexLower[(c \div 16) + 1], HexLower[(c % 16) + 1]>>
  ELSE <<c>>

\* JSON.stringify of a string.
Quote(str) ==
  <<ChQuote>> \o Flat([i \in 1..Len(str) |-> QuoteUnit(str[i])]) \o <<ChQuote>>

\* JSON.parse: the position after the whitespace at p.
RECURSIVE SkipWs(_, _)
SkipWs(t, p) ==
  IF p <= Len(t) /\ t[p] \in {9, 10, 13, 32} THEN SkipWs(t, p + 1) ELSE p

\* The result of parsing a piece of the text: a value and the next position.
Parsed(x, p) == [ok |-> TRUE, v |-> x, p |-> p]
NoParse == [ok |-> FALSE, v |-> <<>>, p |-> 0]

\* The code unit an escape letter stands for, 0 for none.
EscapeUnit(e) ==
  IF e = ChQuote \/ e = ChBackslash \/ e = Code("/") THEN e
  ELSE IF e = Code("b") THEN 8
  ELSE IF e = Code("f") THEN 12
  ELSE IF e = Code("n") THEN 10
  ELSE IF e = Code("r") THEN 13
  ELSE IF e = Code("t") THEN 9
  ELSE 0

\* The body of a string literal from p (after the opening quote) up to and
\* including its closing quote.
RECURSIVE ParseChars(_, _)
ParseChars(t, p) ==
  IF p > Len(t) THEN NoParse
  ELSE IF t[p] = ChQuote THEN Parsed(<<>>, p + 1)
  ELSE IF t[p] < 32 THEN NoParse
  ELSE IF t[p] # ChBackslash
  THEN LET r == ParseChars(t, p + 1)
       IN IF r.ok THEN Parsed(<<t[p]>> \o r.v, r.p) ELSE NoParse
  ELSE IF p + 1 > Len(t) THEN NoParse
  ELSE IF EscapeUnit(t[p + 1]) # 0
  THEN LET r == ParseChars(t, p + 2)
       IN IF r.ok THEN Parsed(<<EscapeUnit(t[p + 1])>> \o r.v, r.p) ELSE NoParse
  ELSE IF t[p + 1] = ChLowerU /\ p + 5 <= Len(t)
          /\ \A i \in 2..5 : IsHex(t[p + i])
  THEN LET r == ParseChars(t, p + 6)
           c == HexVal(t[p + 2]) * 4096 + HexVal(t[p + 3]) * 256
                  + HexVal(t[p + 4]) * 16 + HexVal(t[p + 5])
       IN IF r.ok THEN Parsed(<<c>> \o r.v, r.p) ELSE NoParse
  ELSE NoParse

IsDigit(c) == c >= 48 /\ c <= 57

\* The digits from p on, as a number (n is the value read so far).
RECURSIVE ParseDigits(_, _, _)
ParseDigits(t, p, n) ==
  IF p <= Len(t) /\ IsDigit(t[p])
  THEN ParseDigits(t, p + 1, n * 10 + (t[p] - 48))
  ELSE Parsed(n, p)

\* An integer literal at p: an optional "-", then "0" or digits that do not
\* start with 0. (Fractions and exponents are outside the texts modelled.)
ParseNumber(t, p) ==
  LET neg == t[p] = ChMinus
      q == IF neg THEN p + 1 ELSE p
  IN IF q > Len(t) \/ ~IsDigit(t[q]) THEN NoParse
     ELSE LET r == IF t[q] = ChZero THEN Parsed(0, q + 1) ELSE ParseDigits(t, q, 0)
          IN Parsed(JNum(IF neg THEN 0 - r.v ELSE r.v), r.p)

RECURSIVE ParseValue(_, _)
RECURSIVE ParseMembers(_, _, _)
RECURSIVE ParseElements(_, _, _)

TxtNull == U("null")
TxtTrue == U("true")
TxtFalse == U("false")

\* A JSON value at p (after whitespace).
ParseValue(t, p0) ==
  LET p == SkipWs(t, p0)
  IN IF p > Len(t) THEN NoParse
     ELSE IF HasAt(t, p, TxtNull) THEN Parsed(JNull, p + 4)
     ELSE IF HasAt(t, p, TxtTrue) THEN Parsed(JBool(TRUE), p + 4)
     ELSE IF HasAt(t, p, TxtFalse) THEN Parsed(JBool(FALSE), p + 5)
     ELSE IF t[p] = ChQuote
     THEN LET r == ParseChars(t, p + 1)
          IN IF r.ok THEN Parsed(JStr(r.v), r.p) ELSE NoParse
     ELSE IF t[p] = ChOpenBrace
     THEN LET q == SkipWs(t, p + 1)
          IN IF q <= Len(t) /\ t[q] = ChCloseBrace
             THEN Parsed(JObj(<<>>), q + 1)
             ELSE ParseMembers(t, q, <<>>)
     ELSE IF t[p] = ChOpenBracket
     THEN LET q == SkipWs(t, p + 1)
          IN IF q <= Len(t) /\ t[q] = ChCloseBracket
             THEN Parsed(JArr(<<>>), q + 1)
             ELSE ParseElements(t, q, <<>>)
     ELSE IF t[p] = ChMinus \/ IsDigit(t[p]) THEN ParseNumber(t, p)
     ELSE NoParse

\* The members of an object from p (a key) to its closing brace; f holds the
\* members read so far, and a repeated key takes its last value.
ParseMembers(t, p, f) ==
  IF p > Len(t) \/ t[p] # ChQuote THEN NoParse
  ELSE LET k == ParseChars(t, p + 1)
           c == SkipWs(t, k.p)
       IN IF ~k.ok \/ c > Len(t) \/ t[c] # ChColon THEN NoParse
          ELSE LET x == ParseValue(t, c + 1)
                   q == SkipWs(t, x.p)
                   g == (k.v :> x.v) @@ f
               IN IF ~x.ok \/ q > Len(t) THEN NoParse
                  ELSE IF t[q] = ChCloseBrace THEN Parsed(JObj(g), q + 1)
                  ELSE IF t[q] = ChComma THEN ParseMembers(t, SkipWs(t, q + 1), g)
                  ELSE NoParse

\* The elements of an array from p to its closing bracket.
ParseElements(t, p, a) ==
  LET x == ParseValue(t, p)
      q == SkipWs(t, x.p)
  IN IF ~x.ok \/ q > Len(t) THEN NoParse
     ELSE IF t[q] = ChCloseBracket THEN Parsed(JArr(Append(a, x.v)), q + 1)
     ELSE IF t[q] = ChComma THEN ParseElements(t, q + 1, Append(a, x.v))
     ELSE NoParse

\* JSON.parse: the one value the whole text holds, or a SyntaxError.
JSONParse(t) ==
  LET r == ParseValue(t, 1)
  IN IF r.ok /\ SkipWs(t, r.p) = Len(t) + 1 THEN Ok(r.v) ELSE Throw("SyntaxError")

(***************************************************************************)
(* app/lib/session.ts                                                      *)
(***************************************************************************)

SESSION_COOKIE == U("gh_session")

\* The properties of SessionData, in the order the program writes them.
KeyAccessToken == U("accessToken")
KeyLogin == U("login")
KeyAvatarUrl == U("avatarUrl")
SessionKeys == <<KeyAccessToken, KeyLogin, KeyAvatarUrl>>

\* The anonymous session {}.
EmptySession == JObj(<<>>)

\* obj.key in JavaScript, for a value that is not null: undefined unless obj
\* is an object that has the key.
Prop(obj, key) ==
  IF obj.t = "obj" /\ key \in DOMAIN obj.v THEN obj.v[key] ELSE Undefined

\* !x in JavaScript.
Falsy(x) ==
  \/ x.t \in {"undefined", "null"}
  \/ x.t = "bool" /\ ~x.v
  \/ x.t = "num" /\ x.v = 0
  \/ x.t = "str" /\ x.v = <<>>

\* The members "key":"value" of a session, in SessionKeys order from i; a
\* property that is undefined is left out.
RECURSIVE Members(_, _)
Members(data, i) ==
  IF i > Len(SessionKeys) THEN <<>>
  ELSE IF SessionKeys[i] \in DOMAIN data.v
  THEN <<Quote(SessionKeys[i]) \o <<ChColon>> \o Quote(data.v[SessionKeys[i]].v)>>
         \o Members(data, i + 1)
  ELSE Members(data, i + 1)

\* The texts of ms joined by commas.
RECURSIVE Join(_)
Join(ms) ==
  IF ms = <<>> THEN <<>>
  ELSE IF Len(ms) = 1 THEN ms[1]
  ELSE ms[1] \o <<ChComma>> \o Join(Tail(ms))

\* JSON.stringify of a SessionData object (its properties are strings).
JSONStringify(data) == <<ChOpenBrace>> \o Join(Members(data, 1)) \o <<ChCloseBrace>>

\* function encodeSession(data)
EncodeSession(data) == Btoa(JSONStringify(data))

\* function decodeSession(cookie): whatever JSON.parse returns, and {} when
\* atob or JSON.parse throws.
DecodeSession(cookie) ==
  LET a == Atob(cookie)
      j == IF a.ok THEN JSONParse(a.v) ELSE a
  IN IF j.ok THEN j.v ELSE EmptySession

\* "gh_session="
CookiePrefix == SESSION_COOKIE \o <<ChEquals>>

\* The first match of /gh_session=([^;]+)/ in a header: the position of its
\* group, 0 when there is no match.
MatchStart(h) ==
  LET hits == {p \in 1..Len(h) :
                 /\ HasAt(h, p, CookiePrefix)
                 /\ p + Len(CookiePrefix) <= Len(h)
                 /\ h[p + Len(CookiePrefix)] # ChSemicolon}
  IN IF hits = {} THEN 0
     ELSE Len(CookiePrefix) + CHOOSE p \in hits : \A q \in hits : p <= q

\* The group [^;]+ from position p: the longest run without ";".
UpToSemicolon(h, p) ==
  LET stops == {q \in p..Len(h) : h[q] = ChSemicolon}
      stop == IF stops = {} THEN Len(h) + 1
              ELSE CHOOSE q \in stops : \A r \in stops : q <= r
  IN SubSeq(h, p, stop - 1)

\* function getSession(request), of the request's Cookie header ("" when the
\* request has none). decodeURIComponent is called outside decodeSession's
\* try block: its URIError is getSession's.
GetSession(cookieHeader) ==
  LET m == MatchStart(cookieHeader)
      d == DecodeURIComponent(UpToSemicolon(cookieHeader, m))
  IN IF m = 0 THEN Ok(EmptySession)
     ELSE IF ~d.ok THEN d
     ELSE Ok(DecodeSession(d.v))

CookieAttributes == U("; Path=/; HttpOnly; SameSite=Lax; Max-Age=")
MaxAgeDay == U("86400")

\* function setSessionCookie(data)
SetSessionCookie(data) ==
  LET e == EncodeSession(data)
  IN IF ~e.ok THEN e
     ELSE Ok(CookiePrefix \o EncodeURIComponent(e.v) \o CookieAttributes \o MaxAgeDay)

\* clearSessionCookie() keeping the cookie for a day.
ClearSessionCookieKept == CookiePrefix \o CookieAttributes \o MaxAgeDay
\* function clearSessionCookie()
ClearSessionCookie == CookiePrefix \o CookieAttributes \o <<ChZero>>

(***************************************************************************)
(* app/lib/github.ts: the raw search nodes and their normalization         *)
(***************************************************************************)

\* A field of a response that may be null or absent: <<>>, or <<x>>.
None == <<>>
Some(x) == <<x>>

\* x || d for a string field that may be absent: d when x is absent or "".
OrElse(x, d) == IF x = None \/ x[1] = "" THEN d ELSE x[1]

UpperCase == "ABCDEFGHIJKLMNOPQRSTUVWXYZ"
LowerCase == "abcdefghijklmnopqrstuvwxyz"

\* The lower-case letter of each upper-case letter.
LowerOfUpper ==
  [c \in {SubSeq(UpperCase, i, i) : i \in 1..26} |->
     LET i == CHOOSE i \in 1..26 : SubSeq(UpperCase, i, i) = c
     IN SubSeq(LowerCase, i, i)]

\* String.prototype.toLowerCase, one character and a whole string.
LowerChar(c) == IF c \in DOMAIN LowerOfUpper THEN LowerOfUpper[c] ELSE c

RECURSIVE ToLowerCase(_)
ToLowerCase(str) ==
  IF str = "" THEN ""
  ELSE LowerChar(SubSeq(str, 1, 1)) \o ToLowerCase(SubSeq(str, 2, Len(str)))

\* node.commits?.nodes?.[0]?.commit?.statusCheckRollup: the rollup of the
\* first commit listed, absent when there is no commits field, no commit, or
\* no rollup on it.
StatusNode(node) ==
  IF node.commits = None \/ node.commits[1] = <<>> THEN None
  ELSE node.commits[1][1].statusCheckRollup

\* statusNode?.state?.toLowerCase() || "none"
StatusState(node) ==
  LET statusNode == StatusNode(node)
  IN IF statusNode = None THEN "none"
     ELSE OrElse(Some(ToLowerCase(statusNode[1].state)), "none")

\* The PullRequest pushed when no field is defaulted to "unknown" or "none"
\* and the rollup state is not lower-cased.
NormalizeNoDefaults(node) ==
  [title |-> node.title,
   url |-> node.url[1],
   number |-> node.number,
   repoName |-> node.repository.nameWithOwner,
   author |-> IF node.author = None THEN "" ELSE node.author[1].login,
   authorAvatar |-> IF node.author = None THEN "" ELSE node.author[1].avatarUrl,
   createdAt |-> node.createdAt,
   updatedAt |-> node.updatedAt,
   statusState |-> IF StatusNode(node) = None THEN "" ELSE StatusNode(node)[1].state,
   reviewDecision |-> OrElse(node.reviewDecision, ""),
   isDraft |-> node.isDraft,
   branch |-> OrElse(node.headRefName, "")]

\* The PullRequest pushed for an accepted node.
Normalize(node) ==
  [title |-> node.title,
   url |-> node.url[1],
   number |-> node.number,
   repoName |-> node.repository.nameWithOwner,
   author |-> IF node.author = None THEN "unknown"
              ELSE OrElse(Some(node.author[1].login), "unknown"),
   authorAvatar |-> IF node.author = None THEN ""
                    ELSE OrElse(Some(node.author[1].avatarUrl), ""),
   createdAt |-> node.createdAt,
   updatedAt |-> node.updatedAt,
   statusState |-> StatusState(node),
   reviewDecision |-> OrElse(node.reviewDecision, ""),
   isDraft |-> node.isDraft,
   branch |-> OrElse(node.headRefName, "unknown")]

\* The number a two or four digit piece of a timestamp stands for.
RECURSIVE Digits(_)
Digits(str) ==
  IF str = "" THEN 0
  ELSE Digits(SubSeq(str, 1, Len(str) - 1)) * 10
         + (Code(SubSeq(str, Len(str), Len(str))) - 48)

\* The days from 1970-01-01 to the civil date y-m-d.
DaysFromCivil(y, m, d) ==
  LET yy == IF m <= 2 THEN y - 1 ELSE y
      era == yy \div 400
      yoe == yy - era * 400
      mp == (m + 9) % 12
      doy == (153 * mp + 2) \div 5 + d - 1
      doe == yoe * 365 + yoe \div 4 - yoe \div 100 + doy
  IN era * 146097 + doe - 719468

\* new Date(iso).getTime() for a timestamp "YYYY-MM-DDTHH:MM:SSZ", in seconds
\* (getTime counts milliseconds, 1000 times this: whole seconds keep the
\* numbers within 32-bit integers and keep every comparison).
GetTime(iso) ==
  LET y == Digits(SubSeq(iso, 1, 4))
      m == Digits(SubSeq(iso, 6, 7))
      d == Digits(SubSeq(iso, 9, 10))
      hh == Digits(SubSeq(iso, 12, 13))
      mi == Digits(SubSeq(iso, 15, 16))
      ss == Digits(SubSeq(iso, 18, 19))
  IN ((DaysFromCivil(y, m, d) * 24 + hh) * 60 + mi) * 60 + ss

\* The comparator of the sort: (a, b) => getTime(b.updatedAt) - getTime(a.updatedAt)
Compare(a, b) == GetTime(b.updatedAt) - GetTime(a.updatedAt)

\* Array.prototype.sort with that comparator: a stable sort. x is put after
\* every element of the sorted list that it does not come before.
RECURSIVE InsertSorted(_, _)
InsertSorted(sorted, x) ==
  IF sorted = <<>> THEN <<x>>
  ELSE IF Compare(Head(sorted), x) <= 0
  THEN <<Head(sorted)>> \o InsertSorted(Tail(sorted), x)
  ELSE <<x>> \o sorted

RECURSIVE SortFrom(_, _)
SortFrom(sorted, rest) ==
  IF rest = <<>> THEN sorted
  ELSE SortFrom(InsertSorted(sorted, Head(rest)), Tail(rest))

\* The list returned as it was accepted.
NoSort(prs) == prs

\* allPRs.sort(...)
Sort(prs) == SortFrom(<<>>, prs)

(***************************************************************************)
(* Bounds                                                                  *)
(***************************************************************************)

\* The most search queries configured (the source configures one; its loop
\* takes any number).
MaxQueries == 2

\* The most page requests one call of fetchOpenPRs is answered.
MaxRequests == 3

\* The most raw nodes the server returns to one call, over all its pages.
MaxNodes == 3

\* The longest value of a session field.
MaxFieldLen == 1

(***************************************************************************)
(* The state                                                               *)
(***************************************************************************)

VARIABLES
  request,    \* the Cookie header of the dashboard request
  pc,         \* the dashboard loader: "start", "await" (a page request is out), "done"
  session,    \* what getSession(request) returned or threw
  queries,    \* fetchOpenPRs: the configured search queries
  qi,         \* fetchOpenPRs: the index of the query being walked
  cursor,     \* fetchOpenPRs: cursor
  seen,       \* fetchOpenPRs: seen
  allPRs,     \* fetchOpenPRs: allPRs
  sent,       \* the page requests sent to the GraphQL endpoint, in order
  pages,      \* the responses received, in order
  result,     \* what the loader returned or threw
  data,       \* the codec: a session record given to encodeSession / setSessionCookie
  encoded,    \* the codec: what encodeSession(data) returned or threw
  decoded,    \* the codec: what decodeSession(encoded) returned
  setCookie,  \* the codec: what setSessionCookie(data) returned or threw
  calls,      \* concurrent calls of fetchOpenPRs: each call's position and variables
  frames,     \* concurrent calls: the seen and allPRs each call works on
  callback,   \* the callback loader, per handshake: request, position, requests sent, response
  entry,      \* what the authorization entry loader answered last
  logout,     \* what the logout loader answered last
  client      \* the user-agent: its gh_session cookie and the directive it applied last

vars == <<request, pc, session, queries, qi, cursor, seen, allPRs, sent, pages,
          result, data, encoded, decoded, setCookie, calls, frames, callback,
          entry, logout, client>>

loaderVars == <<request, pc, session, queries, qi, cursor, seen, allPRs, sent,
                pages, result>>
codecVars == <<data, encoded, decoded, setCookie>>
callVars == <<calls, frames>>
authVars == <<callback, entry, logout, client>>

\* A call that has not been made.
NotCalled == [ok |-> FALSE, v |-> <<>>, err |-> "not called"]

(***************************************************************************)
(* The GraphQL endpoint: what a page request can be answered                *)
(***************************************************************************)

\* const queries = [...]: the query of the source, and stand-ins for further
\* ones.
ConfiguredQueries(n) ==
  [i \in 1..n |-> IF i = 1 THEN "is:open is:pr involves:@me archived:false"
                  ELSE "is:open is:pr query:" \o ToString(i)]

\* A search hit that is a pull request, as the query selects its fields.
PRNode(url, updatedAt, author, headRefName, reviewDecision, commits) ==
  [title |-> "title of " \o url,
   url |-> Some(url),
   number |-> 7,
   isDraft |-> FALSE,
   headRefName |-> headRefName,
   createdAt |-> "2024-01-01T00:00:00Z",
   updatedAt |-> updatedAt,
   author |-> author,
   repository |-> [nameWithOwner |-> "octo/repo"],
   reviewDecision |-> reviewDecision,
   commits |-> commits]

\* A search hit that is not a pull request: the fragment selects nothing, the
\* node is {} (every field absent; the placeholders are never read).
NonPRNode ==
  [title |-> "", url |-> None, number |-> 0, isDraft |-> FALSE,
   headRefName |-> None, createdAt |-> "", updatedAt |-> "", author |-> None,
   repository |-> [nameWithOwner |-> ""], reviewDecision |-> None,
   commits |-> None]

\* commits(last: 1) { nodes { commit { statusCheckRollup { state } } } }
Rollup(state) == Some(<<[statusCheckRollup |-> Some([state |-> state])]>>)
NoRollup == Some(<<[statusCheckRollup |-> None]>>)
NoCommit == Some(<<>>)

Octocat == Some([login |-> "octocat", avatarUrl |-> "https://a.example/octocat"])

\* A pull request with every field present.
FullNode(url, updatedAt) ==
  PRNode(url, updatedAt, Octocat, Some("main"), Some("APPROVED"), Rollup("SUCCESS"))

\* The nodes of the pagination walks: a hit that is no pull request, three
\* pull requests updated at different times, and a second version of the
\* first one (the same url, updated later).
WalkNodes ==
  {NonPRNode,
   FullNode("https://github.com/octo/repo/pull/1", "2024-02-29T23:59:59Z"),
   FullNode("https://github.com/octo/repo/pull/2", "2024-03-01T00:00:00Z"),
   FullNode("https://github.com/octo/repo/pull/3", "2024-10-05T12:00:00Z"),
   FullNode("https://github.com/octo/repo/pull/1", "2024-10-05T12:00:00Z")}

\* The rollup states of the API's StatusState enum, and two spellings in
\* other letter cases.
RollupStates ==
  {"SUCCESS", "FAILURE", "PENDING", "ERROR", "EXPECTED", "Success", "pending"}

\* The nodes of the normalization checks: one pull request in every
\* combination of present and absent optional fields.
ShapeNodes ==
  {PRNode("https://github.com/octo/repo/pull/1", "2024-02-29T23:59:59Z",
          a, h, r, c) :
     a \in {None, Octocat},
     h \in {None, Some(""), Some("main")},
     r \in {None, Some("APPROVED"), Some("CHANGES_REQUESTED")},
     c \in {None, NoCommit, NoRollup} \cup {Rollup(st) : st \in RollupStates}}

\* The sequences of at most n elements of S.
RECURSIVE SeqsUpTo(_, _)
SeqsUpTo(S, n) ==
  IF n = 0 THEN {<<>>}
  ELSE LET shorter == SeqsUpTo(S, n - 1)
       IN shorter \cup {Append(q, x) : q \in {q \in shorter : Len(q) = n - 1}, x \in S}

\* pageInfo { hasNextPage endCursor }: the page announces a further page,
\* with a cursor of its own (the k-th page's is "cursor k"), or is the last.
PageInfo(more, k) ==
  [hasNextPage |-> more,
   endCursor |-> IF more THEN Some("cursor " \o ToString(k)) ELSE None]

\* A response: its transport status and, for a success, the body's errors
\* and data.
Page(nodes, pageInfo) ==
  [status |-> 200, errors |-> None,
   data |-> Some([search |-> [nodes |-> nodes, pageInfo |-> pageInfo]])]

TransportFailures ==
  {[status |-> st, errors |-> None, data |-> None] : st \in {401, 502}}

\* A success status with an errors payload (a non-empty list, as GraphQL
\* requires), alone or beside partial data.
QueryErrors ==
  {[status |-> 200, errors |-> Some(<<[message |-> "rate limited"]>>), data |-> None],
   [status |-> 200,
    errors |-> Some(<<[message |-> "SAML enforced"], [message |-> "rate limited"]>>),
    data |-> None],
   [status |-> 200, errors |-> Some(<<[message |-> "SAML enforced"]>>),
    data |-> Some([search |-> [nodes |-> <<>>,
                               pageInfo |-> [hasNextPage |-> FALSE,
                                             endCursor |-> None]]])]}

\* A success status with neither errors nor data.
NoData == [status |-> 200, errors |-> None, data |-> None]

Failures == TransportFailures \cup QueryErrors \cup {NoData}

\* The lists of raw nodes a page of the pagination walks can hold, by the
\* number of nodes the server may still return.
WalkNodeLists == [n \in 0..MaxNodes |-> SeqsUpTo(WalkNodes, n)]

\* The answers of the normalization checks: a last page of one node.
LastPage == PageInfo(FALSE, 1)
ShapeResponses == {Page(<<n>>, LastPage) : n \in ShapeNodes}

\* resp.ok
RespOk(resp) == resp.status >= 200 /\ resp.status <= 299

\* The raw nodes of a response (none when it carries no data).
NodesOf(resp) == IF resp.data = None THEN <<>> ELSE resp.data[1].search.nodes

\* The response is a page: a success with data and no errors.
IsPage(resp) == RespOk(resp) /\ resp.errors = None /\ resp.data # None

\* The number of raw nodes received so far.
RECURSIVE NodeCount(_)
NodeCount(ps) == IF ps = <<>> THEN 0 ELSE Len(NodesOf(Head(ps))) + NodeCount(Tail(ps))

(***************************************************************************)
(* app/lib/github.ts: fetchOpenPRs                                         *)
(***************************************************************************)

\* The loop over search.nodes without the check of seen.
RECURSIVE AcceptNoDedup(_, _, _, _)
AcceptNoDedup(nodes, i, seenUrls, prs) ==
  IF i > Len(nodes) THEN <<seenUrls, prs>>
  ELSE IF OrElse(nodes[i].url, "") = ""
  THEN AcceptNoDedup(nodes, i + 1, seenUrls, prs)
  ELSE AcceptNoDedup(nodes, i + 1, seenUrls \cup {nodes[i].url[1]},
                     Append(prs, Normalize(nodes[i])))

\* The loop over search.nodes stopping after the first node of a page.
RECURSIVE AcceptFirstOnly(_, _, _, _)
AcceptFirstOnly(nodes, i, seenUrls, prs) ==
  IF i > Len(nodes) \/ i > 1 THEN <<seenUrls, prs>>
  ELSE IF OrElse(nodes[i].url, "") = "" \/ nodes[i].url[1] \in seenUrls
  THEN AcceptFirstOnly(nodes, i + 1, seenUrls, prs)
  ELSE AcceptFirstOnly(nodes, i + 1, seenUrls \cup {nodes[i].url[1]},
                       Append(prs, Normalize(nodes[i])))

\* The loop over search.nodes without the check of node.url: a node without
\* a url is recorded and pushed with the empty url.
RECURSIVE AcceptUrlLess(_, _, _, _)
AcceptUrlLess(nodes, i, seenUrls, prs) ==
  IF i > Len(nodes) THEN <<seenUrls, prs>>
  ELSE IF OrElse(nodes[i].url, "") \in seenUrls
  THEN AcceptUrlLess(nodes, i + 1, seenUrls, prs)
  ELSE AcceptUrlLess(nodes, i + 1, seenUrls \cup {OrElse(nodes[i].url, "")},
                     Append(prs, Normalize([nodes[i] EXCEPT
                                              !.url = Some(OrElse(nodes[i].url, ""))])))

\* The body of the loop over search.nodes, from node i on: a node without a
\* url, or with a url already seen, is skipped; any other is recorded in seen
\* and pushed, normalized, on allPRs. Gives the pair <<seen, allPRs>>.
RECURSIVE AcceptNodes(_, _, _, _)
AcceptNodes(nodes, i, seenUrls, prs) ==
  IF i > Len(nodes) THEN <<seenUrls, prs>>
  ELSE IF OrElse(nodes[i].url, "") = "" \/ nodes[i].url[1] \in seenUrls
  THEN AcceptNodes(nodes, i + 1, seenUrls, prs)
  ELSE AcceptNodes(nodes, i + 1, seenUrls \cup {nodes[i].url[1]},
                   Append(prs, Normalize(nodes[i])))

\* The page request fetch sends: the query, the cursor and the bearer token.
PageRequest(q, c, token) == [query |-> q, cursor |-> c, authorization |-> token]

\* The error thrown when the last of the body's errors is reported.
ThrownLastError(resp) ==
  IF ~RespOk(resp) THEN Some("GitHub API error: " \o ToString(resp.status))
  ELSE IF resp.errors # None
  THEN Some(resp.errors[1][Len(resp.errors[1])].message)
  ELSE IF resp.data = None
  THEN Some("Cannot read properties of null (reading 'search')")
  ELSE None
\* The error a response makes fetchOpenPRs throw, None for a page: a
\* transport status that is no success; else the first of the body's errors;
\* else the TypeError of reading json.data.search without data.
Thrown(resp) ==
  IF ~RespOk(resp) THEN Some("GitHub API error: " \o ToString(resp.status))
  ELSE IF resp.errors # None THEN Some(resp.errors[1][1].message)
  ELSE IF resp.data = None
  THEN Some("Cannot read properties of null (reading 'search')")
  ELSE None

(***************************************************************************)
(* app/routes/dashboard.tsx: loader                                        *)
(***************************************************************************)

\* What the loader has not returned yet, and what it returns or throws.
NoResult ==
  [kind |-> "pending", location |-> "", prs |-> <<>>, error |-> None,
   user |-> <<>>, exception |-> ""]
Redirect(to) == [NoResult EXCEPT !.kind = "redirect", !.location = to]
Exception(e) == [NoResult EXCEPT !.kind = "exception", !.exception = e]
LoaderData(s, prs, error) ==
  [NoResult EXCEPT !.kind = "data", !.prs = prs, !.error = error,
                   !.user = [login |-> Prop(s, KeyLogin),
                             avatarUrl |-> Prop(s, KeyAvatarUrl)]]

\* The loader without the check of the token.
GateOpenAlways(s) == TRUE

\* if (!session.accessToken) return redirect("/")
GateOpen(s) == ~Falsy(Prop(s, KeyAccessToken))

\* The loader up to its first await: getSession (whose exception is the
\* loader's), the read of session.accessToken (a TypeError on null), the
\* redirect of a session without a token, and else the start of
\* fetchOpenPRs with its first page request.
LoaderStart(cookieHeader) ==
  /\ pc = "start"
  /\ LET s == GetSession(cookieHeader)
     IN /\ session' = s
        /\ IF ~s.ok
           THEN /\ result' = Exception(s.err)
                /\ pc' = "done"
                /\ UNCHANGED <<qi, cursor, seen, allPRs, sent>>
           ELSE IF s.v.t = "null"
           THEN /\ result' = Exception("TypeError")
                /\ pc' = "done"
                /\ UNCHANGED <<qi, cursor, seen, allPRs, sent>>
           ELSE IF ~GateOpen(s.v)
           THEN /\ result' = Redirect("/")
                /\ pc' = "done"
                /\ UNCHANGED <<qi, cursor, seen, allPRs, sent>>
           ELSE /\ allPRs' = <<>>
                /\ seen' = {}
                /\ qi' = 1
                /\ cursor' = None
                /\ sent' = <<PageRequest(queries[1], None,
                                         Prop(s.v, KeyAccessToken))>>
                /\ pc' = "await"
                /\ UNCHANGED result
  /\ UNCHANGED <<queries, pages>>
  /\ UNCHANGED codecVars
  /\ UNCHANGED callVars

\* The loader answering the dashboard request.
DashboardLoader ==
  /\ LoaderStart(request)
  /\ UNCHANGED request
  /\ UNCHANGED authVars

\* The loader returning what was accepted beside the error.
CaughtWithPartial(prs, message) == LoaderData(session.v, prs, Some(message))
\* The loader letting the exception of fetchOpenPRs through.
CaughtRethrown(prs, message) == Exception(message)

\* What the loader returns when fetchOpenPRs throws: the catch block keeps
\* prs = [] and sets error.
Caught(prs, message) == LoaderData(session.v, <<>>, Some(message))

\* The cursor the next page request carries: cursor = search.pageInfo.endCursor
EndCursorDropped(pageInfo) == None

EndCursor(pageInfo) == pageInfo.endCursor

\* The loop going on only when the page also gave a cursor.
HasNextWithCursor(pageInfo) == pageInfo.hasNextPage /\ pageInfo.endCursor # None
\* hasNext = search.pageInfo.hasNextPage: the condition of while (hasNext),
\* the only one that ends the walk of a query.
HasNext(pageInfo) == pageInfo.hasNextPage

\* The call asking again for the page that failed.
FailRetrying(w, message) ==
  [w EXCEPT !.next = "await", !.sent = Append(w.sent, w.sent[Len(w.sent)])]

\* throw new Error(message): the call ends, its variables as they are.
Fail(w, message) == [w EXCEPT !.next = "throw", !.message = message]

\* One call of fetchOpenPRs, from the answer to its page request to its next
\* await, its throw or its return. w holds the call's own variables (queries,
\* qi, cursor, seen, allPRs) and the requests it has sent; the result holds
\* them after the step, with what the call does next: "await" (a further
\* request is out), "throw" (with the message) or "return" (with the list).
WalkStep(w, resp) ==
  IF Thrown(resp) # None
  THEN Fail(w, Thrown(resp)[1])
  ELSE LET search == resp.data[1].search
           acc == AcceptNodes(search.nodes, 1, w.seen, w.allPRs)
           token == w.sent[1].authorization
           v == [w EXCEPT !.seen = acc[1], !.allPRs = acc[2],
                          !.cursor = EndCursor(search.pageInfo)]
       IN IF HasNext(search.pageInfo)
          THEN [v EXCEPT !.next = "await",
                         !.sent = Append(w.sent, PageRequest(w.queries[w.qi],
                                                             v.cursor, token))]
          ELSE IF w.qi < Len(w.queries)
          THEN [v EXCEPT !.next = "await",
                         !.qi = w.qi + 1,
                         !.cursor = None,
                         !.sent = Append(w.sent, PageRequest(w.queries[w.qi + 1],
                                                             None, token))]
          ELSE [v EXCEPT !.next = "return", !.returned = Sort(acc[2])]

\* The variables of a call of fetchOpenPRs.
Walk(qs, i, c, seenUrls, prs, requests) ==
  [queries |-> qs, qi |-> i, cursor |-> c, seen |-> seenUrls, allPRs |-> prs,
   sent |-> requests, next |-> "await", message |-> "", returned |-> <<>>]

\* The loader from the answer to a page request to its next await or its
\* return: fetchOpenPRs throws (and the loader catches), or accepts the
\* page's nodes and asks for the next page of the query, or for the first
\* page of the next query, or sorts and returns.
FetchResponse(resp) ==
  /\ pc = "await"
  /\ pages' = Append(pages, resp)
  /\ LET w == WalkStep(Walk(queries, qi, cursor, seen, allPRs, sent), resp)
     IN /\ qi' = w.qi
        /\ cursor' = w.cursor
        /\ seen' = w.seen
        /\ allPRs' = w.allPRs
        /\ sent' = w.sent
        /\ IF w.next = "throw"
           THEN result' = Caught(w.allPRs, w.message) /\ pc' = "done"
           ELSE IF w.next = "return"
           THEN result' = LoaderData(session.v, w.returned, None) /\ pc' = "done"
           ELSE UNCHANGED <<pc, result>>
  /\ UNCHANGED <<request, session, queries>>
  /\ UNCHANGED codecVars
  /\ UNCHANGED <<callVars, authVars>>

\* The server's side of the bounds: a further page is announced only while
\* the requests left cover it and the first page of every later query, and
\* the nodes returned stay within MaxNodes.
Answers(resp) ==
  /\ NodeCount(pages) + Len(NodesOf(resp)) <= MaxNodes
  /\ (IsPage(resp) /\ resp.data[1].search.pageInfo.hasNextPage)
       => Len(sent) + (Len(queries) - qi) < MaxRequests

(***************************************************************************)
(* The requests and sessions enumerated                                    *)
(***************************************************************************)

\* The code units of session fields: a letter, the two characters JSON
\* escapes, a Latin-1 letter (e acute) and a letter beyond Latin-1 (A macron).
SessionChars == {Code("t"), ChQuote, ChBackslash, 233, 256}

\* A field of a session: absent (<<>>), or a string of at most MaxFieldLen.
FieldValues == {None} \cup {Some(JStr(str)) : str \in SeqsUpTo(SessionChars, MaxFieldLen)}

\* The session record with the given fields.
SessionOf(token, login, avatarUrl) ==
  LET fields == <<token, login, avatarUrl>>
      present == {i \in 1..3 : fields[i] # None}
  IN JObj([k \in {SessionKeys[i] : i \in present} |->
             fields[CHOOSE i \in present : SessionKeys[i] = k][1]])

\* The well-formed sessions: each field absent or a string.
Sessions ==
  {SessionOf(a, l, u) : a \in FieldValues, l \in FieldValues, u \in FieldValues}

\* The Cookie header a client sends after a Set-Cookie header: the cookie's
\* name=value pair, without its attributes.
HeaderFromSetCookie(sc) == UpToSemicolon(sc, 1)

\* The Cookie header that carries a gh_session value.
CookieHeader(value) == CookiePrefix \o value

\* A session as the callback makes it, and sessions without a usable token.
LoggedIn ==
  SessionOf(Some(JStr(U("gho_16C7e42F"))), Some(JStr(U("octocat"))),
            Some(JStr(U("https://a.example/octocat"))))
NoToken == SessionOf(None, Some(JStr(U("octocat"))), None)
EmptyToken == SessionOf(Some(JStr(<<>>)), Some(JStr(U("octocat"))), None)

\* The value setSessionCookie gives the cookie of a session.
CookieValue(s) == EncodeURIComponent(EncodeSession(s).v)

\* gh_session values that are not the encoding of a session record: broken
\* percent escapes, text that is not base64, an encoding cut short (to a
\* length atob rejects, and to one it accepts), base64 of text that is not
\* JSON, and base64 of JSON that is no object (null, a number, a string).
MalformedValues ==
  {U("%"), U("e30%3"), U("%ZZe30"),
   U("!!!!"), U("e30*"),
   SubSeq(CookieValue(LoggedIn), 1, 5), SubSeq(CookieValue(LoggedIn), 1, 6),
   EncodeURIComponent(Btoa(U("hello")).v),
   EncodeURIComponent(Btoa(U("{\"accessToken\":")).v),
   EncodeURIComponent(Btoa(U("null")).v),
   EncodeURIComponent(Btoa(U("5")).v),
   EncodeURIComponent(Btoa(U("\"gho_16C7e42F\"")).v)}

MalformedRequests == {CookieHeader(v) : v \in MalformedValues}

\* The Cookie headers of the dashboard requests: none; another cookie only;
\* gh_session of a session with and without a token, alone and among other
\* cookies (a session with a token alone, one without among others); and the
\* malformed ones.
DashboardRequests ==
  {U(""), U("theme=dark"),
   CookieHeader(CookieValue(LoggedIn)),
   CookieHeader(CookieValue(NoToken)),
   U("theme=dark; ") \o CookieHeader(CookieValue(NoToken)) \o U("; lang=en"),
   CookieHeader(CookieValue(EmptyToken)),
   CookieHeader(CookieValue(EmptySession)),
   HeaderFromSetCookie(ClearSessionCookie)}
  \cup MalformedRequests

(***************************************************************************)
(* Concurrent calls and the authentication routes: the states at rest      *)
(***************************************************************************)

\* The calls of fetchOpenPRs that run side by side, and the handshakes.
Calls == {1, 2}
Handshakes == {1, 2}

\* A call that has not started.
IdleCall == [pc |-> "idle", pages |-> <<>>, w |-> Walk(<<>>, 0, None, {}, <<>>, <<>>)]

\* The seen and allPRs of a call at `const allPRs = []; const seen = new Set()`.
FreshFrame == [seen |-> {}, allPRs |-> <<>>]

NoCalls ==
  /\ calls = [c \in Calls |-> IdleCall]
  /\ frames = [c \in Calls |-> FreshFrame]

\* A callback loader that was not requested.
IdleCallback ==
  [params |-> <<>>, pc |-> "idle", out |-> <<>>, got |-> <<>>, tokenData |-> Undefined,
   response |-> None]

\* A user-agent without cookie: it applied no directive (which would have
\* replaced what it held) and asked for no dashboard.
NoCookies == [jar |-> None, applied |-> "none", replaced |-> None, visited |-> "no"]

NoAuth ==
  /\ callback = [h \in Handshakes |-> IdleCallback]
  /\ entry = None
  /\ logout = None
  /\ client = NoCookies

(***************************************************************************)
(* The dashboard: a request, then the walk of fetchOpenPRs                 *)
(***************************************************************************)

Init ==
  /\ request \in DashboardRequests
  /\ queries \in {ConfiguredQueries(n) : n \in 1..MaxQueries}
  /\ pc = "start"
  /\ session = NotCalled
  /\ qi = 0
  /\ cursor = None
  /\ seen = {}
  /\ allPRs = <<>>
  /\ sent = <<>>
  /\ pages = <<>>
  /\ result = NoResult
  /\ data = EmptySession
  /\ encoded = NotCalled
  /\ decoded = Undefined
  /\ setCookie = NotCalled
  /\ NoCalls
  /\ NoAuth

\* The answer to the page request that is out: a failure, or the next page
\* with any of the lists of raw nodes, announcing a further page or not.
WalkAnswer ==
  /\ pc = "await"
  /\ \/ \E resp \in Failures : Answers(resp) /\ FetchResponse(resp)
     \/ \E ns \in WalkNodeLists[MaxNodes - NodeCount(pages)], more \in BOOLEAN :
          LET resp == Page(ns, PageInfo(more, Len(pages) + 1))
          IN Answers(resp) /\ FetchResponse(resp)

Next == DashboardLoader \/ WalkAnswer

Spec == Init /\ [][Next]_vars

(***************************************************************************)
(* Normalization: the same walk over pages of one node of any shape        *)
(***************************************************************************)

\* The single query of the source.
InitShapes == Init /\ queries = ConfiguredQueries(1)

ShapeAnswer ==
  /\ pc = "await"
  /\ \E resp \in ShapeResponses : Answers(resp) /\ FetchResponse(resp)

NextShapes == DashboardLoader \/ ShapeAnswer

SpecShapes == InitShapes /\ [][NextShapes]_vars

(***************************************************************************)
(* Nodes without url: the same walk over pages that mix them in            *)
(***************************************************************************)

\* A pull request whose url is the empty string.
EmptyUrlNode ==
  [FullNode("https://github.com/octo/repo/pull/9", "2024-10-05T12:00:00Z")
     EXCEPT !.url = Some("")]

\* A hit that is no pull request (no url), a node with an empty url, and two
\* pull requests.
UrlNodes ==
  {NonPRNode, EmptyUrlNode,
   FullNode("https://github.com/octo/repo/pull/1", "2024-02-29T23:59:59Z"),
   FullNode("https://github.com/octo/repo/pull/2", "2024-03-01T00:00:00Z")}

\* The lists of raw nodes a page can hold, by the number of nodes the server
\* may still return.
UrlNodeLists == [n \in 0..MaxNodes |-> SeqsUpTo(UrlNodes, n)]

\* The answer to the page request that is out: a 502, or the next page with
\* any of the lists, announcing a further page or not.
UrlAnswer ==
  /\ pc = "await"
  /\ \/ \E resp \in {[status |-> 502, errors |-> None, data |-> None]} :
          Answers(resp) /\ FetchResponse(resp)
     \/ \E ns \in UrlNodeLists[MaxNodes - NodeCount(pages)], more \in BOOLEAN :
          LET resp == Page(ns, PageInfo(more, Len(pages) + 1))
          IN Answers(resp) /\ FetchResponse(resp)

NextUrls == DashboardLoader \/ UrlAnswer

SpecUrls == Init /\ [][NextUrls]_vars

(***************************************************************************)
(* Termination: the same walk with a server that answers every request     *)
(***************************************************************************)

\* The pageInfo of a page that announces a further page without a cursor of
\* its own: endCursor null, or the same cursor on every page.
StuckPageInfos ==
  {[hasNextPage |-> TRUE, endCursor |-> c] : c \in {None, Some("cursor 1")}}

\* The lists of raw nodes of these pages: none, or one pull request.
TermNodeLists ==
  {<<>>, <<FullNode("https://github.com/octo/repo/pull/1", "2024-02-29T23:59:59Z")>>}

\* The answer to the page request that is out: a failure; a page that
\* announces a further one, with its own cursor, the same cursor again or
\* none; or a last page.
TermAnswer ==
  /\ pc = "await"
  /\ Len(pages) < MaxRequests
  /\ \/ \E resp \in Failures : Answers(resp) /\ FetchResponse(resp)
     \/ \E ns \in TermNodeLists, more \in BOOLEAN :
          LET resp == Page(ns, PageInfo(more, Len(pages) + 1))
          IN Answers(resp) /\ FetchResponse(resp)
     \/ \E ns \in TermNodeLists, pageInfo \in StuckPageInfos :
          LET resp == Page(ns, pageInfo)
          IN Answers(resp) /\ FetchResponse(resp)

NextTerm == DashboardLoader \/ TermAnswer

\* The server answers the request that is out.
SpecTerm == Init /\ [][NextTerm]_vars /\ WF_vars(TermAnswer)

(***************************************************************************)
(* The codec: a session encoded, decoded, and carried by the cookie        *)
(***************************************************************************)

InitCodec ==
  /\ data \in Sessions
  /\ request = U("")
  /\ queries = ConfiguredQueries(1)
  /\ pc = "start"
  /\ session = NotCalled
  /\ qi = 0
  /\ cursor = None
  /\ seen = {}
  /\ allPRs = <<>>
  /\ sent = <<>>
  /\ pages = <<>>
  /\ result = NoResult
  /\ encoded = NotCalled
  /\ decoded = Undefined
  /\ setCookie = NotCalled
  /\ NoCalls
  /\ NoAuth

\* encodeSession(data)
EncodeCall ==
  /\ encoded = NotCalled
  /\ encoded' = EncodeSession(data)
  /\ UNCHANGED <<data, decoded, setCookie>>
  /\ UNCHANGED loaderVars
  /\ UNCHANGED <<callVars, authVars>>

\* decodeSession of what encodeSession returned
DecodeCall ==
  /\ encoded.ok
  /\ decoded = Undefined
  /\ decoded' = DecodeSession(encoded.v)
  /\ UNCHANGED <<data, encoded, setCookie>>
  /\ UNCHANGED loaderVars
  /\ UNCHANGED <<callVars, authVars>>

\* setSessionCookie(data)
SetCookieCall ==
  /\ encoded # NotCalled
  /\ encoded.ok => decoded # Undefined
  /\ setCookie = NotCalled
  /\ setCookie' = SetSessionCookie(data)
  /\ UNCHANGED <<data, encoded, decoded>>
  /\ UNCHANGED loaderVars
  /\ UNCHANGED <<callVars, authVars>>

\* The client keeps the cookie and sends it with its dashboard request.
ClientSendsCookie ==
  /\ setCookie.ok
  /\ pc = "start"
  /\ request = U("")
  /\ request' = HeaderFromSetCookie(setCookie.v)
  /\ UNCHANGED <<pc, session, queries, qi, cursor, seen, allPRs, sent, pages, result>>
  /\ UNCHANGED codecVars
  /\ UNCHANGED <<callVars, authVars>>

\* The dashboard request that carries the cookie.
CookieRequest == request # U("") /\ DashboardLoader

NextCodec ==
  EncodeCall \/ DecodeCall \/ SetCookieCall \/ ClientSendsCookie \/ CookieRequest

SpecCodec == InitCodec /\ [][NextCodec]_vars

(***************************************************************************)
(* routes/auth.github.tsx, auth.callback.tsx, auth.logout.tsx              *)
(***************************************************************************)

\* What an authentication loader returns or throws: a redirect, with or
\* without a Set-Cookie header, or an exception nothing catches.
AuthRedirect(to, cookie) ==
  [kind |-> "redirect", location |-> to, setCookie |-> cookie, exception |-> ""]
AuthException(e) ==
  [kind |-> "exception", location |-> "", setCookie |-> None, exception |-> e]

\* url.searchParams.get(name): the value of the first parameter of that name.
Get(params, name) ==
  LET hits == {i \in 1..Len(params) : params[i][1] = name}
  IN IF hits = {} THEN None
     ELSE Some(params[CHOOSE i \in hits : \A j \in hits : i <= j][2])

\* The state values crypto.randomUUID() can draw.
States == {"state 1", "state 2"}

\* The authorization URL: client_id, scope and state are its parameters.
AuthorizeUrl(state) ==
  [url |-> "https://github.com/login/oauth/authorize",
   params |-> <<<<"client_id", "GITHUB_CLIENT_ID">>, <<"scope", "read:org repo">>,
                <<"state", state>>>>]

\* loader of auth.github.tsx: the redirect to the provider. The state is in
\* that URL only.
EntryLoader ==
  /\ \E state \in States : entry' = Some(AuthRedirect(AuthorizeUrl(state), None))
  /\ UNCHANGED <<callback, logout, client>>
  /\ UNCHANGED <<loaderVars, codecVars, callVars>>

\* The requests the callback loader sends.
TokenRequest(code) ==
  [url |-> "https://github.com/login/oauth/access_token", code |-> Some(code),
   authorization |-> None]
UserRequest(token) ==
  [url |-> "https://api.github.com/user", code |-> None,
   authorization |-> Some(U("Bearer ") \o (IF token.t = "str" THEN token.v ELSE U("null")))]

\* !code, of an absent code only.
NoCodeAbsentOnly(params) == Get(params, "code") = None
\* !code, or a state the entry loader did not issue last.
NoCodeOrStateNotIssued(params) ==
  \/ Get(params, "code") \in {None, Some("")}
  \/ entry = None
  \/ Get(params, "state") # Get(entry[1].location.params, "state")
\* !code: searchParams.get gave null or the empty string.
NoCode(params) == Get(params, "code") \in {None, Some("")}

\* !tokenData.access_token, of an absent access_token only.
NoCredentialAbsentOnly(tokenData) == Prop(tokenData, U("access_token")).t = "undefined"
\* !tokenData.access_token
NoCredential(tokenData) == Falsy(Prop(tokenData, U("access_token")))

\* What awaiting a response's json() gives: fetch rejects with a TypeError
\* when the request fails, json() with a SyntaxError when the body is not
\* JSON; the status is not looked at.
Json(resp) == IF resp.failed THEN Throw("TypeError") ELSE JSONParse(resp.body)

\* The loader ends: what it answers, and nothing more to await.
Respond(cb, response) == [cb EXCEPT !.pc = "done", !.response = Some(response)]

\* The object literal {accessToken, login, avatarUrl}; JSON.stringify leaves
\* out the properties that are undefined.
Defined(x) == IF x.t = "undefined" THEN None ELSE Some(x)
SessionData(tokenData, user) ==
  SessionOf(Defined(Prop(tokenData, U("access_token"))),
            Defined(Prop(user, U("login"))),
            Defined(Prop(user, U("avatar_url"))))

\* The loader of auth.callback.tsx up to its first await.
CallbackStart(cb) ==
  IF NoCode(cb.params) THEN Respond(cb, AuthRedirect("/?error=no_code", None))
  ELSE [cb EXCEPT !.pc = "token",
                  !.out = Append(cb.out, TokenRequest(Get(cb.params, "code")[1]))]

\* From the token endpoint's answer to the second await. Reading
\* access_token of null throws a TypeError.
CallbackToken(cb, resp) ==
  LET j == Json(resp)
      got == [cb EXCEPT !.got = Append(cb.got, resp)]
  IN IF ~j.ok THEN Respond(got, AuthException(j.err))
     ELSE IF j.v.t = "null" THEN Respond(got, AuthException("TypeError"))
     ELSE IF NoCredential(j.v) THEN Respond(got, AuthRedirect("/?error=token_failed", None))
     ELSE [got EXCEPT !.pc = "user", !.tokenData = j.v,
                      !.out = Append(cb.out, UserRequest(Prop(j.v, U("access_token"))))]

\* From the profile endpoint's answer to the return. Reading login of null
\* throws a TypeError; setSessionCookie throws what btoa throws.
CallbackUser(cb, resp) ==
  LET j == Json(resp)
      got == [cb EXCEPT !.got = Append(cb.got, resp)]
      cookie == SetSessionCookie(SessionData(cb.tokenData, j.v))
  IN IF ~j.ok THEN Respond(got, AuthException(j.err))
     ELSE IF j.v.t = "null" THEN Respond(got, AuthException("TypeError"))
     ELSE IF ~cookie.ok THEN Respond(got, AuthException(cookie.err))
     ELSE Respond(got, AuthRedirect("/dashboard", Some(cookie.v)))

\* A response of a provider endpoint: the request failed, or a status and a
\* body.
NoAnswer == [failed |-> TRUE, status |-> 0, body |-> <<>>]
Answer(status, body) == [failed |-> FALSE, status |-> status, body |-> body]

\* The token endpoint's answers: a token, with and without its companions;
\* the error of a bad code; bodies without, with a null and with an empty
\* access_token; JSON that is no object; a gateway's page; no answer.
TokenAnswers ==
  {Answer(200, U("{\"access_token\":\"gho_16C7e42F\",\"token_type\":\"bearer\",\"scope\":\"repo\"}")),
   Answer(200, U("{\"access_token\":\"gho_2\"}")),
   Answer(200, U("{\"error\":\"bad_verification_code\"}")),
   Answer(200, U("{}")),
   Answer(200, U("{\"access_token\":null}")),
   Answer(200, U("{\"access_token\":\"\"}")),
   Answer(200, U("[]")),
   Answer(200, U("null")),
   Answer(502, U("<html>Bad Gateway</html>")),
   NoAnswer}

\* The profile endpoint's answers: a profile; one without avatar; a profile
\* whose login is beyond Latin-1; the refusal of the token; JSON null; a
\* gateway's page; no answer.
UserAnswers ==
  {Answer(200, U("{\"login\":\"octocat\",\"id\":1,\"avatar_url\":\"https://a.example/octocat\"}")),
   Answer(200, U("{\"login\":\"octocat\"}")),
   Answer(200, U("{\"login\":\"") \o <<256>> \o U("\"}")),
   Answer(401, U("{\"message\":\"Bad credentials\"}")),
   Answer(200, U("null")),
   Answer(502, U("<html>Bad Gateway</html>")),
   NoAnswer}

\* The query parameters of the callback requests: none; a state alone; the
\* provider's refusal; an empty code; a code, alone, with either state, and
\* behind an empty code.
CallbackRequests ==
  {<<>>,
   <<<<"state", "state 1">>>>,
   <<<<"error", "access_denied">>, <<"state", "state 1">>>>,
   <<<<"code", "">>>>,
   <<<<"code", "">>, <<"state", "state 2">>>>,
   <<<<"code", "code 1">>>>,
   <<<<"code", "code 1">>, <<"state", "state 1">>>>,
   <<<<"code", "code 1">>, <<"state", "state 2">>>>,
   <<<<"code", "">>, <<"code", "code 1">>>>}

\* A callback request that arrived: the loader is about to run.
Requested(params) == [IdleCallback EXCEPT !.params = params, !.pc = "start"]

\* The loader runs to its first await or to its end.
CallbackLoader(h) ==
  /\ callback[h].pc = "start"
  /\ callback' = [callback EXCEPT ![h] = CallbackStart(callback[h])]
  /\ UNCHANGED <<entry, logout, client>>
  /\ UNCHANGED <<loaderVars, codecVars, callVars>>

\* The token endpoint answers.
TokenResponse(h) ==
  /\ callback[h].pc = "token"
  /\ \E resp \in TokenAnswers :
       callback' = [callback EXCEPT ![h] = CallbackToken(callback[h], resp)]
  /\ UNCHANGED <<entry, logout, client>>
  /\ UNCHANGED <<loaderVars, codecVars, callVars>>

\* The profile endpoint answers.
UserResponse(h) ==
  /\ callback[h].pc = "user"
  /\ \E resp \in UserAnswers :
       callback' = [callback EXCEPT ![h] = CallbackUser(callback[h], resp)]
  /\ UNCHANGED <<entry, logout, client>>
  /\ UNCHANGED <<loaderVars, codecVars, callVars>>

\* loader of auth.logout.tsx: it takes no argument.
LogoutLoader ==
  /\ logout' = Some(AuthRedirect("/", Some(ClearSessionCookie)))
  /\ UNCHANGED <<callback, entry, client>>
  /\ UNCHANGED <<loaderVars, codecVars, callVars>>

\* The Max-Age attribute of a Set-Cookie header: what follows "Max-Age=".
MaxAgeOf(sc) ==
  LET name == U("Max-Age=")
      at == CHOOSE p \in 1..Len(sc) : HasAt(sc, p, name)
  IN UpToSemicolon(sc, at + Len(name))

\* The user-agent applying a Set-Cookie header of gh_session: Max-Age=0
\* expires the cookie, else its value is kept.
ApplySetCookie(c, sc, directive) ==
  [c EXCEPT !.jar = IF MaxAgeOf(sc) = <<ChZero>> THEN None
                    ELSE Some(From(HeaderFromSetCookie(sc), Len(CookiePrefix) + 1)),
            !.applied = directive,
            !.replaced = c.jar]

\* The user-agent follows the callback's redirect and keeps its cookie.
ClientAppliesLogin(h) ==
  /\ callback[h].pc = "done"
  /\ callback[h].response[1].setCookie # None
  /\ client' = ApplySetCookie(client, callback[h].response[1].setCookie[1], "login")
  /\ UNCHANGED <<callback, entry, logout>>
  /\ UNCHANGED <<loaderVars, codecVars, callVars>>

\* The user-agent follows the logout's redirect and applies its directive.
ClientAppliesLogout ==
  /\ logout # None
  /\ client' = ApplySetCookie(client, logout[1].setCookie[1], "logout")
  /\ UNCHANGED <<callback, entry, logout>>
  /\ UNCHANGED <<loaderVars, codecVars, callVars>>

\* The Cookie header the user-agent sends.
ClientHeader(c) == IF c.jar = None THEN U("") ELSE CookieHeader(c.jar[1])

\* The user-agent requests the dashboard with the cookie it holds, and the
\* loader answers.
DashboardVisit ==
  /\ pc = "start"
  /\ request' = ClientHeader(client)
  /\ LoaderStart(ClientHeader(client))
  /\ client' = [client EXCEPT !.visited = client.applied]
  /\ UNCHANGED <<callback, entry, logout>>

\* The user-agents: without cookie, logged in, holding the cookie of a
\* session without token, and holding a corrupt cookie (a broken escape,
\* base64 of null).
Clients ==
  {NoCookies,
   [NoCookies EXCEPT !.jar = Some(CookieValue(LoggedIn))],
   [NoCookies EXCEPT !.jar = Some(CookieValue(NoToken))],
   [NoCookies EXCEPT !.jar = Some(U("%"))],
   [NoCookies EXCEPT !.jar = Some(EncodeURIComponent(Btoa(U("null")).v))]}

\* No dashboard request, no entry request and no logout yet.
AuthAtRest ==
  /\ request = U("")
  /\ queries = ConfiguredQueries(1)
  /\ pc = "start"
  /\ session = NotCalled
  /\ qi = 0
  /\ cursor = None
  /\ seen = {}
  /\ allPRs = <<>>
  /\ sent = <<>>
  /\ pages = <<>>
  /\ result = NoResult
  /\ data = EmptySession
  /\ encoded = NotCalled
  /\ decoded = Undefined
  /\ setCookie = NotCalled
  /\ NoCalls
  /\ entry = None
  /\ logout = None

\* One handshake and the logout, of any user-agent.
InitAuth ==
  /\ AuthAtRest
  /\ \E params \in CallbackRequests :
       callback = [h \in Handshakes |-> IF h = 1 THEN Requested(params) ELSE IdleCallback]
  /\ client \in Clients

NextAuth ==
  \/ EntryLoader
  \/ CallbackLoader(1)
  \/ TokenResponse(1)
  \/ UserResponse(1)
  \/ ClientAppliesLogin(1)
  \/ LogoutLoader
  \/ ClientAppliesLogout

SpecAuth == InitAuth /\ [][NextAuth]_vars

\* The callers of the logout: no handshake, or one that awaits the token
\* endpoint; any user-agent.
InitLogout ==
  /\ AuthAtRest
  /\ \E cb \in {IdleCallback, CallbackStart(Requested(<<<<"code", "code 1">>>>))} :
       callback = [h \in Handshakes |-> IF h = 1 THEN cb ELSE IdleCallback]
  /\ client \in Clients

\* The logout and the dashboard, in any order.
NextLogout ==
  \/ EntryLoader
  \/ LogoutLoader
  \/ ClientAppliesLogout
  \/ DashboardVisit

SpecLogout == InitLogout /\ [][NextLogout]_vars

\* Two handshakes side by side, with or without an entry request before.
InitForgery ==
  /\ AuthAtRest
  /\ client = NoCookies
  /\ \E p1 \in CallbackRequests, p2 \in CallbackRequests :
       callback = [h \in Handshakes |-> Requested(IF h = 1 THEN p1 ELSE p2)]

NextForgery ==
  \/ EntryLoader
  \/ \E h \in Handshakes : CallbackLoader(h) \/ TokenResponse(h) \/ UserResponse(h)

SpecForgery == InitForgery /\ [][NextForgery]_vars

(***************************************************************************)
(* app/lib/github.ts: two calls of fetchOpenPRs side by side               *)
(***************************************************************************)

\* The token of each call, and its query list (the one query of the source).
CallToken(c) == JStr(IF c = 1 THEN U("gho_16C7e42F") ELSE U("gho_2"))
CallQueries == ConfiguredQueries(1)

\* The pages a call may be answered before the server stops announcing more.
MaxCallPages == MaxRequests - 1

\* The nodes of the pages: two pull requests and a later version of the first.
CallNodes ==
  {FullNode("https://github.com/octo/repo/pull/1", "2024-02-29T23:59:59Z"),
   FullNode("https://github.com/octo/repo/pull/2", "2024-03-01T00:00:00Z"),
   FullNode("https://github.com/octo/repo/pull/1", "2024-10-05T12:00:00Z")}
CallNodeLists == SeqsUpTo(CallNodes, 1)

\* The accumulators of every call being one pair.
FrameShared(c) == 1
\* const allPRs = []; const seen = new Set(): declared inside the function,
\* so each call has its own.
FrameOf(c) == c

\* fetchOpenPRs(accessToken) up to its first await.
StartWalk(c) ==
  Walk(CallQueries, 1, None, {}, <<>>, <<PageRequest(CallQueries[1], None, CallToken(c))>>)

CallStart(c) ==
  /\ calls[c].pc = "idle"
  /\ calls' = [calls EXCEPT ![c] = [pc |-> "await", pages |-> <<>>, w |-> StartWalk(c)]]
  /\ frames' = [frames EXCEPT ![FrameOf(c)] = FreshFrame]
  /\ UNCHANGED <<loaderVars, codecVars, authVars>>

\* The call resumes with the answer to its request: it works on its seen
\* and allPRs as they are now.
CallStep(c, resp) ==
  LET f == frames[FrameOf(c)]
      w == WalkStep([calls[c].w EXCEPT !.seen = f.seen, !.allPRs = f.allPRs], resp)
  IN /\ calls' = [calls EXCEPT ![c] = [pc |-> IF w.next = "await" THEN "await" ELSE "done",
                                       pages |-> Append(calls[c].pages, resp),
                                       w |-> w]]
     /\ frames' = [frames EXCEPT ![FrameOf(c)] = [seen |-> w.seen, allPRs |-> w.allPRs]]
     /\ UNCHANGED <<loaderVars, codecVars, authVars>>

\* The answer to the request of call c that is out: a failure, or a page
\* that announces a further one while the call's pages allow it.
CallAnswer(c) ==
  /\ calls[c].pc = "await"
  /\ \/ CallStep(c, [status |-> 502, errors |-> None, data |-> None])
     \/ \E ns \in CallNodeLists, more \in BOOLEAN :
          /\ more => Len(calls[c].pages) + 1 < MaxCallPages
          /\ CallStep(c, Page(ns, PageInfo(more, Len(calls[c].pages) + 1)))

InitCalls == AuthAtRest /\ NoAuth

NextCalls == \E c \in Calls : CallStart(c) \/ CallAnswer(c)

SpecCalls == InitCalls /\ [][NextCalls]_vars

(***************************************************************************)
(* What the walk received and what the loader returned                     *)
(***************************************************************************)

\* fetchOpenPRs returned its list and the loader passed it on.
ReturnedList == pc = "done" /\ result.kind = "data" /\ result.error = None

\* fetchOpenPRs threw and the loader reported the error.
Failed == pc = "done" /\ result.kind = "data" /\ result.error # None

\* The raw nodes of the pages received, in the order of arrival.
RECURSIVE RawNodes(_)
RawNodes(ps) ==
  IF ps = <<>> THEN <<>> ELSE NodesOf(Head(ps)) \o RawNodes(Tail(ps))

\* The urls of the raw nodes that have one.
RawUrls ==
  LET raw == RawNodes(pages)
  IN {raw[k].url[1] : k \in {k \in 1..Len(raw) : OrElse(raw[k].url, "") # ""}}

\* The first raw node received with url u.
FirstRaw(u) ==
  LET raw == RawNodes(pages)
      k == CHOOSE k \in 1..Len(raw) :
             /\ raw[k].url = Some(u)
             /\ \A m \in 1..(k - 1) : raw[m].url # Some(u)
  IN raw[k]

\* No two records of the list have the same url.
NoDuplicateUrls(prs) ==
  \A i, j \in 1..Len(prs) : i # j => prs[i].url # prs[j].url

\* The two lists hold the same records, each as often as the other.
IsPermutation(xs, ys) ==
  /\ Len(xs) = Len(ys)
  /\ \A i \in 1..Len(xs) :
       Cardinality({j \in 1..Len(xs) : xs[j] = xs[i]})
         = Cardinality({j \in 1..Len(ys) : ys[j] = xs[i]})

(***************************************************************************)
(* C1 to C5: the walk of fetchOpenPRs                                      *)
(***************************************************************************)

\* C1 (dedup invariant): whatever the pages of whatever queries delivered,
\* with urls repeated within a page, across pages or across queries, no two
\* records accepted so far, and no two records of the list returned, have the
\* same url.
C1_DedupInvariant ==
  /\ NoDuplicateUrls(allPRs)
  /\ result.kind = "data" => NoDuplicateUrls(result.prs)

\* A list was returned after one url arrived twice within a page of one
\* query and again in a page of another query.
C1_Witness ==
  /\ ReturnedList
  /\ result.prs # <<>>
  /\ \E i, j \in 1..Len(pages) :
       /\ sent[i].query # sent[j].query
       /\ \E a, b \in 1..Len(NodesOf(pages[i])), c \in 1..Len(NodesOf(pages[j])) :
            /\ a < b
            /\ NodesOf(pages[i])[a].url # None
            /\ NodesOf(pages[i])[a].url = NodesOf(pages[i])[b].url
            /\ NodesOf(pages[i])[a].url = NodesOf(pages[j])[c].url

\* C2 (atomic failure): once a page request, the first, a middle or the
\* last, of any query, is answered with a transport status that is no
\* success, the call has failed: the walk is over, an error is reported, and
\* the list handed to the caller is empty, whatever was accepted before.
C2_AtomicFailure ==
  \A i \in 1..Len(pages) :
    ~RespOk(pages[i]) =>
      /\ i = Len(pages)
      /\ Failed
      /\ result.prs = <<>>

\* The third page request, the first of the second query, failed at the
\* transport after records of the first query's two pages were accepted.
C2_Witness ==
  /\ Len(pages) = 3
  /\ ~RespOk(pages[3])
  /\ sent[1].query = sent[2].query
  /\ sent[3].query # sent[1].query
  /\ Len(allPRs) >= 2
  /\ Failed

\* C3 as stated (pagination completeness): when every page is answered
\* successfully, every raw node of every page appears in the returned list
\* exactly once, and the list contains nothing else.
C3_EveryRawNodeOnce ==
  ReturnedList =>
    LET raw == RawNodes(pages)
    IN /\ Len(result.prs) = Len(raw)
       /\ \A k \in 1..Len(raw) :
            Cardinality({j \in 1..Len(result.prs) :
                           /\ Some(result.prs[j].url) = raw[k].url
                           /\ result.prs[j].updatedAt = raw[k].updatedAt}) = 1

\* C3 as amended: when every page is answered successfully, every url
\* carried by a raw node of the pages appears in the returned list exactly
\* once, as the record of the first raw node that carried it, and the list
\* contains nothing else; raw nodes without a url, and raw nodes that repeat
\* an earlier url, are left out.
C3_PaginationCompleteness ==
  ReturnedList =>
    /\ {result.prs[j].url : j \in 1..Len(result.prs)} = RawUrls
    /\ Len(result.prs) = Cardinality(RawUrls)
    /\ \A j \in 1..Len(result.prs) :
         LET n == FirstRaw(result.prs[j].url)
         IN /\ result.prs[j].updatedAt = n.updatedAt
            /\ result.prs[j].title = n.title

\* One query was walked over three pages (continuation flag true, true,
\* false), each with a node, and a list of the three was returned.
C3_Witness ==
  /\ ReturnedList
  /\ Len(pages) = 3
  /\ Len(queries) = 1
  /\ \A i \in 1..3 : Len(NodesOf(pages[i])) = 1
  /\ pages[1].data[1].search.pageInfo.hasNextPage
  /\ pages[2].data[1].search.pageInfo.hasNextPage
  /\ ~pages[3].data[1].search.pageInfo.hasNextPage
  /\ Len(result.prs) = 3

\* C4 (ordering law): a returned list is sorted by updatedAt descending
\* (each record's time of update is not before the next one's), and is a
\* permutation of the accepted records, in whatever order they arrived.
C4_OrderingLaw ==
  ReturnedList =>
    /\ \A i \in 1..(Len(result.prs) - 1) :
         GetTime(result.prs[i].updatedAt) >= GetTime(result.prs[i + 1].updatedAt)
    /\ IsPermutation(result.prs, allPRs)

\* Three records were accepted oldest first, two of them updated at the same
\* time, and were returned in another order.
C4_Witness ==
  /\ ReturnedList
  /\ Len(allPRs) = 3
  /\ GetTime(allPRs[1].updatedAt) < GetTime(allPRs[2].updatedAt)
  /\ GetTime(allPRs[2].updatedAt) = GetTime(allPRs[3].updatedAt)
  /\ result.prs # allPRs

\* C5 (query-level error): once a page is answered with a success status and
\* an errors payload, with or without data, the call has failed with the
\* message of the first error reported, and the list handed to the caller is
\* empty.
C5_QueryLevelError ==
  \A i \in 1..Len(pages) :
    (RespOk(pages[i]) /\ pages[i].errors # None) =>
      /\ i = Len(pages)
      /\ Failed
      /\ result.error = Some(pages[i].errors[1][1].message)
      /\ result.prs = <<>>

\* A second page reported two errors, with different messages, after
\* records of the first page were accepted.
C5_Witness ==
  /\ Len(pages) = 2
  /\ RespOk(pages[2])
  /\ pages[2].errors # None
  /\ Len(pages[2].errors[1]) = 2
  /\ pages[2].errors[1][1].message # pages[2].errors[1][2].message
  /\ allPRs # <<>>
  /\ Failed

(***************************************************************************)
(* C6, C7: normalization                                                   *)
(***************************************************************************)

\* The lower-case spelling of each rollup state.
LowerCased ==
  [st \in RollupStates |->
     CASE st \in {"SUCCESS", "Success"} -> "success"
       [] st = "FAILURE" -> "failure"
       [] st \in {"PENDING", "pending"} -> "pending"
       [] st = "ERROR" -> "error"
       [] st = "EXPECTED" -> "expected"]

\* The last commit of the node has a status rollup.
HasRollup(n) ==
  /\ n.commits # None
  /\ n.commits[1] # <<>>
  /\ n.commits[1][1].statusCheckRollup # None

\* C6 (defaulting invariant): every returned record, against the raw node it
\* was made from, has author "unknown" and authorAvatar "" when the node has
\* no author, branch "unknown" when headRefName is missing or empty,
\* reviewDecision "" when the node has none, statusState "none" when the last
\* commit has no rollup; and carries the node's value where it is present,
\* the rollup state lower-cased.
C6_DefaultingInvariant ==
  ReturnedList =>
    \A j \in 1..Len(result.prs) :
      LET pr == result.prs[j]
          n == FirstRaw(pr.url)
      IN /\ IF n.author = None
            THEN pr.author = "unknown" /\ pr.authorAvatar = ""
            ELSE /\ pr.author = n.author[1].login
                 /\ pr.authorAvatar = n.author[1].avatarUrl
         /\ IF n.headRefName = None \/ n.headRefName = Some("")
            THEN pr.branch = "unknown"
            ELSE pr.branch = n.headRefName[1]
         /\ IF n.reviewDecision = None
            THEN pr.reviewDecision = ""
            ELSE pr.reviewDecision = n.reviewDecision[1]
         /\ IF HasRollup(n)
            THEN pr.statusState = LowerCased[n.commits[1][1].statusCheckRollup[1].state]
            ELSE pr.statusState = "none"

\* A record was returned for a node without author and review decision,
\* with an empty headRefName and a last commit without rollup.
C6_Witness ==
  /\ ReturnedList
  /\ Len(result.prs) = 1
  /\ LET n == FirstRaw(result.prs[1].url)
     IN /\ n.author = None
        /\ n.headRefName = Some("")
        /\ n.reviewDecision = None
        /\ n.commits = NoRollup

\* C7 (statusState enum): every returned record has statusState success,
\* failure, pending or none, whatever rollup state the API reported on the
\* last commit, in whatever letter case, and when there is no rollup.
C7_StatusStateEnum ==
  ReturnedList =>
    \A j \in 1..Len(result.prs) :
      result.prs[j].statusState \in {"success", "failure", "pending", "none"}

(***************************************************************************)
(* C8 to C10: the session and the gate                                     *)
(***************************************************************************)

\* C8 (anonymous fallback): getSession returns without throwing whatever the
\* Cookie header; and when the gh_session value is not the encoding of a
\* session record it returns the anonymous session {}, and the dashboard
\* loader redirects the caller as logged out.
C8_AnonymousFallback ==
  session # NotCalled =>
    /\ session.ok
    /\ request \in MalformedRequests =>
         /\ session.v.t = "obj"
         /\ session.v = EmptySession
         /\ result = Redirect("/")

\* C9 (session round trip): for every session whose fields are each absent
\* or a string, encodeSession does not throw, decodeSession gives the session
\* back from what it returned, setSessionCookie does not throw, and
\* getSession gives the session back from the cookie it made.
C9_SessionRoundTrip ==
  /\ encoded # NotCalled => encoded.ok
  /\ decoded # Undefined => decoded = data
  /\ setCookie # NotCalled => setCookie.ok
  /\ session # NotCalled => session.ok /\ session.v = data

\* The value is a string that is not empty.
NonEmptyString(x) == x.t = "str" /\ Len(x.v) > 0

\* The session is a record with a present, non-empty accessToken.
HasToken(s) ==
  /\ s.t = "obj"
  /\ KeyAccessToken \in DOMAIN s.v
  /\ NonEmptyString(s.v[KeyAccessToken])

\* C10 (aggregation gate): a page request is sent only when getSession
\* returned a session with a present, non-empty accessToken, and carries that
\* token; and the loader that got a session without one has answered with a
\* redirect to "/" and sent nothing.
C10_AggregationGate ==
  /\ sent # <<>> =>
       /\ session.ok
       /\ HasToken(session.v)
       /\ \A i \in 1..Len(sent) : sent[i].authorization = session.v.v[KeyAccessToken]
  /\ (session.ok /\ session.v.t # "null" /\ ~HasToken(session.v)) =>
       /\ result = Redirect("/")
       /\ sent = <<>>

\* The loader redirected a caller whose session names a login but carries an
\* empty accessToken.
C10_Witness ==
  /\ pc = "done"
  /\ session.ok
  /\ session.v.t = "obj"
  /\ KeyLogin \in DOMAIN session.v.v
  /\ KeyAccessToken \in DOMAIN session.v.v
  /\ session.v.v[KeyAccessToken] = JStr(<<>>)
  /\ result = Redirect("/")
  /\ sent = <<>>

(***************************************************************************)
(* C16 to C18: failures and the order of the requests                      *)
(***************************************************************************)

\* C16 (failures converted at the loader boundary): once fetchOpenPRs is
\* called the loader does not throw; when a page request is answered by
\* anything but a page (a status that is no success, an errors payload, a
\* body without data) the loader has returned an error string and an empty
\* list; and every result of the loader has either no error and the accepted
\* records as its list, or an error and an empty list.
C16_LoaderBoundary ==
  /\ sent # <<>> => result.kind \in {"pending", "data"}
  /\ \A i \in 1..Len(pages) :
       ~IsPage(pages[i]) =>
         /\ pc = "done"
         /\ result.kind = "data"
         /\ result.error # None
         /\ result.prs = <<>>
  /\ result.kind = "data" =>
       \/ result.error = None /\ IsPermutation(result.prs, allPRs)
       \/ result.error # None /\ result.prs = <<>>

\* A second page came without errors and without data, after records of the
\* first page were accepted, and the loader returned the error.
C16_Witness ==
  /\ Len(pages) = 2
  /\ pages[2] = NoData
  /\ allPRs # <<>>
  /\ result.kind = "data"
  /\ result.error # None

\* The place of a query in the configured list.
QueryIndex(q) == CHOOSE k \in 1..Len(queries) : queries[k] = q

\* The pageInfo of the i-th page received.
PageInfoOf(i) == pages[i].data[1].search.pageInfo

\* C17 (sequential cursor-chained walk): at most one page request is
\* unanswered, and one is exactly while the call awaits; the first request is
\* for the first query with cursor null; every later request follows a page:
\* after a page with hasNextPage it is for the same query with that page's
\* endCursor, after a page without it is for the next query in the declared
\* order with cursor null; a list is returned only after a page of the last
\* query without hasNextPage.
C17_CursorChain ==
  /\ Len(sent) = Len(pages) + (IF pc = "await" THEN 1 ELSE 0)
  /\ sent # <<>> => sent[1].query = queries[1] /\ sent[1].cursor = None
  /\ \A i \in 2..Len(sent) :
       /\ IsPage(pages[i - 1])
       /\ IF PageInfoOf(i - 1).hasNextPage
          THEN /\ sent[i].query = sent[i - 1].query
               /\ sent[i].cursor = PageInfoOf(i - 1).endCursor
          ELSE /\ QueryIndex(sent[i - 1].query) < Len(queries)
               /\ sent[i].query = queries[QueryIndex(sent[i - 1].query) + 1]
               /\ sent[i].cursor = None
  /\ ReturnedList =>
       /\ ~PageInfoOf(Len(pages)).hasNextPage
       /\ sent[Len(sent)].query = queries[Len(queries)]

\* Three requests were sent for one query: the second with the cursor of the
\* first page, the third with the cursor of the second.
C17_Witness ==
  /\ Len(sent) = 3
  /\ sent[1].query = sent[3].query
  /\ sent[2].cursor = PageInfoOf(1).endCursor
  /\ sent[3].cursor = PageInfoOf(2).endCursor
  /\ sent[2].cursor # None
  /\ sent[3].cursor # sent[2].cursor

\* C18 (immediate failure without retry): once a page request is answered
\* with a status that is no success, or with an errors payload, the call is
\* over and that request is the last it sent: no retry, no later page, no
\* later query; and for a transport failure the error names the status.
C18_NoRetry ==
  \A i \in 1..Len(pages) :
    (~RespOk(pages[i]) \/ pages[i].errors # None) =>
      /\ i = Len(pages)
      /\ Len(sent) = i
      /\ pc = "done"
      /\ ~RespOk(pages[i]) =>
           result.error = Some("GitHub API error: " \o ToString(pages[i].status))

\* The first page request of the first of two queries, which had announced
\* nothing yet, was answered 502, and nothing was sent after it.
C18_Witness ==
  /\ Len(queries) = 2
  /\ Len(pages) = 1
  /\ pages[1].status = 502
  /\ Len(sent) = 1
  /\ pc = "done"

(***************************************************************************)
(* C11 to C14: the callback of the handshake                               *)
(***************************************************************************)

\* The code parameter of handshake h is absent or empty.
CodeMissing(h) == Get(callback[h].params, "code") \in {None, Some("")}

\* The requests handshake h sent to an endpoint.
SentTo(h, url) == {i \in 1..Len(callback[h].out) : callback[h].out[i].url = url}
TokenEndpoint == "https://github.com/login/oauth/access_token"
UserEndpoint == "https://api.github.com/user"

\* Handshake h ended with this response.
Ended(h, response) == callback[h].pc = "done" /\ callback[h].response = Some(response)

\* C11 (missing authorization code): a callback request whose code parameter
\* is absent or empty is answered by the redirect to /?error=no_code without
\* Set-Cookie header; it never awaits an endpoint, sends no request to the
\* token or the profile endpoint, and the user-agent gets no cookie from it.
C11_MissingCode ==
  \A h \in Handshakes :
    (callback[h].pc # "idle" /\ CodeMissing(h)) =>
      /\ callback[h].pc \in {"start", "done"}
      /\ callback[h].out = <<>>
      /\ callback[h].got = <<>>
      /\ callback[h].pc = "done" => Ended(h, AuthRedirect("/?error=no_code", None))
      /\ client.applied # "login"

\* The callback request with an empty code, before a code that is not read,
\* was answered no_code.
C11_Witness ==
  /\ callback[1].params = <<<<"code", "">>, <<"code", "code 1">>>>
  /\ Ended(1, AuthRedirect("/?error=no_code", None))
  /\ callback[1].out = <<>>

\* The access_token field of a response body that is JSON and not null:
\* undefined when the body has no such field.
AccessTokenOf(resp) == Prop(JSONParse(resp.body).v, U("access_token"))

\* The response arrived with a JSON body other than null.
JsonBody(resp) ==
  /\ ~resp.failed
  /\ JSONParse(resp.body).ok
  /\ JSONParse(resp.body).v.t # "null"

\* C12 (token exchange failure): when the token endpoint answers with a JSON
\* body whose access_token is absent, null or the empty string, the callback
\* is answered by the redirect to /?error=token_failed without Set-Cookie
\* header, the one request sent is the token request, the profile endpoint
\* is never called, and the user-agent gets no cookie.
C12_TokenFailed ==
  \A h \in Handshakes :
    (/\ callback[h].got # <<>>
     /\ JsonBody(callback[h].got[1])
     /\ \/ AccessTokenOf(callback[h].got[1]).t \in {"undefined", "null"}
        \/ AccessTokenOf(callback[h].got[1]) = JStr(<<>>)) =>
      /\ Ended(h, AuthRedirect("/?error=token_failed", None))
      /\ Len(callback[h].out) = 1
      /\ SentTo(h, TokenEndpoint) = {1}
      /\ SentTo(h, UserEndpoint) = {}
      /\ Len(callback[h].got) = 1
      /\ client.applied # "login"

\* A code was exchanged, the token endpoint answered {}, and the callback
\* was answered token_failed.
C12_Witness ==
  /\ Get(callback[1].params, "code") = Some("code 1")
  /\ callback[1].got = <<Answer(200, U("{}"))>>
  /\ callback[1].out = <<TokenRequest("code 1")>>
  /\ Ended(1, AuthRedirect("/?error=token_failed", None))

\* C13 (every failure is a tagged redirect): a callback that ended without
\* the session cookie ended with a redirect to /?error=no_code or
\* /?error=token_failed, never with an exception; and no endpoint was sent
\* more than one request.
C13_TaggedRedirect ==
  \A h \in Handshakes :
    /\ (callback[h].pc = "done" /\ callback[h].response[1].setCookie = None) =>
         /\ callback[h].response[1].kind = "redirect"
         /\ callback[h].response[1].location \in {"/?error=no_code", "/?error=token_failed"}
    /\ Cardinality(SentTo(h, TokenEndpoint)) <= 1
    /\ Cardinality(SentTo(h, UserEndpoint)) <= 1

\* The token endpoint answered handshake h with a non-empty access_token.
TokenReturned(h) ==
  /\ callback[h].got # <<>>
  /\ JsonBody(callback[h].got[1])
  /\ AccessTokenOf(callback[h].got[1]).t = "str"
  /\ AccessTokenOf(callback[h].got[1]).v # <<>>

\* The cookie of handshake h came after the profile fetch made with the
\* returned token, lasts a day, and is decoded by getSession to the returned
\* token and the profile's login and avatar_url, a session the dashboard's
\* gate lets through.
Materialized(h) ==
  LET cb == callback[h]
      token == AccessTokenOf(cb.got[1])
      user == JSONParse(cb.got[2].body).v
      s == GetSession(HeaderFromSetCookie(cb.response[1].setCookie[1]))
  IN /\ Len(cb.got) = 2
     /\ cb.out = <<TokenRequest(Get(cb.params, "code")[1]), UserRequest(token)>>
     /\ cb.response[1] = AuthRedirect("/dashboard", cb.response[1].setCookie)
     /\ MaxAgeOf(cb.response[1].setCookie[1]) = U("86400")
     /\ s.ok
     /\ Prop(s.v, KeyAccessToken) = token
     /\ Prop(s.v, KeyLogin) = Prop(user, U("login"))
     /\ Prop(s.v, KeyAvatarUrl) = Prop(user, U("avatar_url"))
     /\ GateOpen(s.v)
     /\ PageRequest("q", None, Prop(s.v, KeyAccessToken)).authorization = token

\* C14 (session materialization): a callback that ended emitted a session
\* cookie if and only if its code was present and the token endpoint
\* returned a non-empty access_token; and a cookie emitted came after the
\* profile fetch with that token, has Max-Age=86400 and carries the token
\* and the profile's login and avatar_url.
C14_SessionMaterialization ==
  \A h \in Handshakes :
    callback[h].pc = "done" =>
      /\ callback[h].response[1].setCookie # None <=> (~CodeMissing(h) /\ TokenReturned(h))
      /\ callback[h].response[1].setCookie # None => Materialized(h)

(***************************************************************************)
(* C15: the logout                                                         *)
(***************************************************************************)

\* C15 (logout is unconditional): whatever the caller's state, the logout
\* loader answers the redirect to / with the gh_session cookie set to the
\* empty value with Max-Age=0; a user-agent that applied it holds no session
\* cookie; and the dashboard request it makes next is decoded to the
\* anonymous session and redirected, without any page request.
C15_LogoutUnconditional ==
  /\ logout # None =>
       /\ logout[1].kind = "redirect"
       /\ logout[1].location = "/"
       /\ logout[1].setCookie # None
       /\ HeaderFromSetCookie(logout[1].setCookie[1]) = U("gh_session=")
       /\ MaxAgeOf(logout[1].setCookie[1]) = U("0")
  /\ client.applied = "logout" => client.jar = None
  /\ client.visited = "logout" =>
       /\ request = U("")
       /\ session = Ok(EmptySession)
       /\ result = Redirect("/")
       /\ sent = <<>>
       /\ pc = "done"

\* In the middle of a handshake, a user-agent that held the cookie of a
\* session with a token logged out, applied the directive and asked for the
\* dashboard.
C15_Witness ==
  /\ callback[1].pc = "token"
  /\ client.replaced = Some(CookieValue(LoggedIn))
  /\ client.visited = "logout"
  /\ result = Redirect("/")

(***************************************************************************)
(* C20: the state parameter                                                *)
(***************************************************************************)

\* The sequence a is the beginning of b.
Prefix(a, b) == Len(a) <= Len(b) /\ SubSeq(b, 1, Len(a)) = a

\* C20 (the anti-forgery state is never checked): of two callbacks that
\* ended, with the same code parameter and the same answers of the provider
\* as far as either asked for them, both have sent the same requests and got
\* the same response (location, error tag, cookie), whatever their state
\* parameters are and whatever the entry loader issued, if it ran at all.
C20_StateIgnored ==
  \A h1 \in Handshakes, h2 \in Handshakes :
    (/\ callback[h1].pc = "done"
     /\ callback[h2].pc = "done"
     /\ Get(callback[h1].params, "code") = Get(callback[h2].params, "code")
     /\ Prefix(callback[h1].got, callback[h2].got)) =>
      /\ callback[h1].response = callback[h2].response
      /\ callback[h1].out = callback[h2].out
      /\ callback[h1].got = callback[h2].got

\* No entry request was ever made, and two callbacks with the same code and
\* different states both ended with the same session cookie.
C20_Witness ==
  /\ entry = None
  /\ Get(callback[1].params, "state") = Some("state 1")
  /\ Get(callback[2].params, "state") = Some("state 2")
  /\ Get(callback[1].params, "code") = Get(callback[2].params, "code")
  /\ callback[1].pc = "done"
  /\ callback[1].response[1].location = "/dashboard"
  /\ callback[1].response[1].setCookie # None
  /\ callback[2].pc = "done"
  /\ callback[2].response = callback[1].response

(***************************************************************************)
(* C19: two calls of fetchOpenPRs                                          *)
(***************************************************************************)

\* The call that starts from w and is answered ps[i], ps[i + 1], ...,
\* running alone.
RECURSIVE Replay(_, _, _)
Replay(w, ps, i) == IF i > Len(ps) THEN w ELSE Replay(WalkStep(w, ps[i]), ps, i + 1)

\* C19 (call isolation): a call starts with an empty seen set, an empty
\* allPRs and a null cursor; and in every interleaving of two calls, each
\* call's position, variables, requests and outcome are those of the call
\* that runs alone from that start and gets the same answers.
C19_CallIsolation ==
  \A c \in Calls :
    calls[c].pc # "idle" =>
      /\ calls[c].w.sent[1] = PageRequest(CallQueries[1], None, CallToken(c))
      /\ calls[c].pages = <<>> => calls[c].w.seen = {} /\ calls[c].w.allPRs = <<>>
      /\ calls[c].w = Replay(Walk(CallQueries, 1, None, {}, <<>>, <<calls[c].w.sent[1]>>),
                             calls[c].pages, 1)
      /\ calls[c].pc = "done" <=> calls[c].w.next # "await"

\* Both calls were answered the same pull request on their first page, call
\* 1 went on to a second page, and both returned that pull request.
C19_Witness ==
  /\ calls[1].pc = "done"
  /\ calls[2].pc = "done"
  /\ Len(calls[1].pages) = 2
  /\ Len(calls[2].pages) = 1
  /\ NodesOf(calls[1].pages[1]) = NodesOf(calls[2].pages[1])
  /\ Len(NodesOf(calls[1].pages[1])) = 1
  /\ Len(calls[1].w.returned) >= 1
  /\ Len(calls[2].w.returned) = 1
  /\ calls[1].w.returned[1].url = calls[2].w.returned[1].url

(***************************************************************************)
(* C22: nodes without url                                                  *)
(***************************************************************************)

\* C22 (nodes without a url are dropped silently): at every moment of the
\* walk, seen is the set of the non-empty urls of the raw nodes received,
\* and allPRs holds one record for each of them and no record with an empty
\* url; a page never makes the call fail, whatever nodes without url it
\* holds; and a returned list has a non-empty url in every record, its urls
\* being the non-empty urls of all the pages fetched.
C22_UrlLessDropped ==
  /\ "" \notin seen
  /\ seen = RawUrls
  /\ {allPRs[j].url : j \in 1..Len(allPRs)} = RawUrls
  /\ Len(allPRs) = Cardinality(RawUrls)
  /\ Failed => ~IsPage(pages[Len(pages)])
  /\ \A i \in 1..(Len(pages) - 1) : IsPage(pages[i])
  /\ ReturnedList =>
       /\ \A j \in 1..Len(result.prs) : result.prs[j].url # ""
       /\ {result.prs[j].url : j \in 1..Len(result.prs)} = RawUrls
       /\ Len(result.prs) = Cardinality(RawUrls)

\* Two pages were fetched, holding a hit without url, a node with an empty
\* url and one pull request, and the list returned has that pull request
\* alone.
C22_Witness ==
  /\ ReturnedList
  /\ Len(pages) = 2
  /\ \E k \in 1..Len(RawNodes(pages)) : RawNodes(pages)[k].url = None
  /\ \E k \in 1..Len(RawNodes(pages)) : RawNodes(pages)[k].url = Some("")
  /\ Len(RawNodes(pages)) = 3
  /\ Len(result.prs) = 1
  /\ result.prs[1].url = "https://github.com/octo/repo/pull/1"

(***************************************************************************)
(* C21: termination of the walk                                            *)
(***************************************************************************)

\* Every page received so far announced a further page.
OnlyMorePages ==
  \A i \in 1..Len(pages) : IsPage(pages[i]) /\ PageInfoOf(i).hasNextPage

\* However many pages the server has announced, the call has asked for the
\* next one of the same query, and has neither returned nor failed.
KeepsRequesting ==
  (sent # <<>> /\ OnlyMorePages) =>
    /\ pc = "await"
    /\ Len(sent) = Len(pages) + 1
    /\ sent[Len(sent)].query = queries[1]
    /\ Len(pages) > 0 => sent[Len(sent)].cursor = PageInfoOf(Len(pages)).endCursor

\* C21 (termination of the walk): with a server that answers every request
\* and, for every query, at last answers a page without hasNextPage or a
\* failure, a call that has started returns its list or fails. And nothing
\* but such an answer ends it: while every answer is a page with hasNextPage
\* (be its endCursor a new cursor, the same cursor again or null) the call
\* asks for the next page and does not return.
C21_Termination ==
  /\ []KeepsRequesting
  /\ (pc = "await") ~> (pc = "done" /\ result.kind = "data")

\* The call got two pages with hasNextPage and a null endCursor, asked three
\* times for the first page of the same query, and awaits the third answer.
C21_Witness ==
  /\ Len(pages) = 2
  /\ OnlyMorePages
  /\ PageInfoOf(1).endCursor = None
  /\ PageInfoOf(2).endCursor = None
  /\ Len(sent) = 3
  /\ sent[1] = sent[2]
  /\ sent[2] = sent[3]
  /\ pc = "await"

=============================================================================
